---------------------------- MODULE Spec2Model ----------------------------
(***************************************************************************)
(* Model of the universal PDF financial document processor of              *)
(* src/ai-service/main.py (lines 792-1559): document classification,      *)
(* table boundary detection, semantic field mapping, line splitting, data  *)
(* extraction and the fallback line scanner.                               *)
(*                                                                         *)
(* A Python str is a sequence of one-character strings.  The alphabet is   *)
(* ASCII: the only whitespace characters are space, tab and newline and    *)
(* the only digits are 0-9.  A float confidence is an exact rational: a    *)
(* record confidence is held in hundredths (85 for 0.85) and a region      *)
(* confidence as the pair <<numerator, denominator>>.                      *)
(***************************************************************************)
EXTENDS Integers, Sequences, FiniteSets, TLC

(***************************************************************************)
(* Characters and the str methods the code uses.                           *)
(***************************************************************************)
TAB == "\t"
NL == "\n"
SPACE == " "

Digits == {"0", "1", "2", "3", "4", "5", "6", "7", "8", "9"}
Whitespace == {SPACE, TAB, NL}
DateSeparators == {"/", "-"}
AmountChars == Digits \cup {","}

UpperToLower ==
  [c \in {"A", "B", "C", "D", "E", "F", "G", "H", "I", "J", "K", "L", "M",
          "N", "O", "P", "Q", "R", "S", "T", "U", "V", "W", "X", "Y", "Z"} |->
     CASE c = "A" -> "a" [] c = "B" -> "b" [] c = "C" -> "c" [] c = "D" -> "d"
       [] c = "E" -> "e" [] c = "F" -> "f" [] c = "G" -> "g" [] c = "H" -> "h"
       [] c = "I" -> "i" [] c = "J" -> "j" [] c = "K" -> "k" [] c = "L" -> "l"
       [] c = "M" -> "m" [] c = "N" -> "n" [] c = "O" -> "o" [] c = "P" -> "p"
       [] c = "Q" -> "q" [] c = "R" -> "r" [] c = "S" -> "s" [] c = "T" -> "t"
       [] c = "U" -> "u" [] c = "V" -> "v" [] c = "W" -> "w" [] c = "X" -> "x"
       [] c = "Y" -> "y" [] c = "Z" -> "z"]

\* str.lower()
lower(s) ==
  [i \in 1..Len(s) |-> IF s[i] \in DOMAIN UpperToLower THEN UpperToLower[s[i]] ELSE s[i]]

\* s[a:b] with 1-based inclusive positions a..b (empty when b < a)
Slice(s, a, b) == IF b < a THEN <<>> ELSE SubSeq(s, a, b)

\* kw occurs in s at position p
OccursAt(kw, s, p) ==
  /\ p >= 1
  /\ p + Len(kw) - 1 <= Len(s)
  /\ \A j \in 1..Len(kw) : s[p + j - 1] = kw[j]

\* the Python test `kw in s`, for a keyword kw that is not empty
Contains(s, kw) ==
  \E p \in 1..(Len(s) - Len(kw) + 1) :
    s[p] = kw[1] /\ \A j \in 2..Len(kw) : s[p + j - 1] = kw[j]

\* str.startswith
startswith(s, prefix) == OccursAt(prefix, s, 1)

\* str.find(sub, start) with a 0-based start; the result is 0-based, -1 when absent
find(s, sub, start) ==
  LET hits == {p \in (start + 1)..(Len(s) - Len(sub) + 1) : OccursAt(sub, s, p)}
  IN IF hits = {} THEN -1
     ELSE (CHOOSE p \in hits : \A q \in hits : p <= q) - 1

\* str.strip()
strip(s) ==
  IF \A k \in 1..Len(s) : s[k] \in Whitespace THEN <<>>
  ELSE LET a == CHOOSE k \in 1..Len(s) :
                  s[k] \notin Whitespace /\ \A j \in 1..(k - 1) : s[j] \in Whitespace
           b == CHOOSE k \in 1..Len(s) :
                  s[k] \notin Whitespace /\ \A j \in (k + 1)..Len(s) : s[j] \in Whitespace
       IN SubSeq(s, a, b)

\* str.split(sep) for a one-character separator: empty pieces are kept
RECURSIVE SplitFrom(_, _, _)
SplitFrom(s, sep, from) ==
  LET hits == {p \in from..Len(s) : s[p] = sep}
  IN IF hits = {} THEN <<Slice(s, from, Len(s))>>
     ELSE LET p == CHOOSE q \in hits : \A r \in hits : q <= r
          IN <<Slice(s, from, p - 1)>> \o SplitFrom(s, sep, p + 1)

split_on(s, sep) == SplitFrom(s, sep, 1)

\* the whitespace runs of s as <<first, last>> pairs, in order
WsRuns(s) ==
  LET starts == {i \in 1..Len(s) :
                   s[i] \in Whitespace /\ (i = 1 \/ s[i - 1] \notin Whitespace)}
      EndOf(a) == CHOOSE b \in a..Len(s) :
                    /\ \A k \in a..b : s[k] \in Whitespace
                    /\ (b = Len(s) \/ s[b + 1] \notin Whitespace)
  IN {<<a, EndOf(a)>> : a \in starts}

\* the pieces of s between the separator runs `runs`, in order
RECURSIVE PiecesFrom(_, _, _)
PiecesFrom(s, runs, from) ==
  LET later == {r \in runs : r[1] >= from}
  IN IF later = {} THEN <<Slice(s, from, Len(s))>>
     ELSE LET r == CHOOSE x \in later : \A y \in later : x[1] <= y[1]
          IN <<Slice(s, from, r[1] - 1)>> \o PiecesFrom(s, runs, r[2] + 1)

\* re.split(r'\s{2,}', s)
re_split_2ws(s) == PiecesFrom(s, {r \in WsRuns(s) : r[2] - r[1] >= 1}, 1)

\* str.split(): pieces between whitespace runs, empty pieces dropped
split(s) == SelectSeq(PiecesFrom(s, WsRuns(s), 1), LAMBDA p : p # <<>>)

\* ' '.join(parts) and, generally, sep.join(parts)
RECURSIVE join(_, _)
join(sep, parts) ==
  IF parts = <<>> THEN <<>>
  ELSE IF Len(parts) = 1 THEN parts[1]
  ELSE parts[1] \o sep \o join(sep, Tail(parts))

\* str(n) for a natural number n
RECURSIVE str_of_nat(_)
str_of_nat(n) ==
  LET d == CHOOSE c \in Digits :
             \/ (c = "0" /\ n % 10 = 0) \/ (c = "1" /\ n % 10 = 1)
             \/ (c = "2" /\ n % 10 = 2) \/ (c = "3" /\ n % 10 = 3)
             \/ (c = "4" /\ n % 10 = 4) \/ (c = "5" /\ n % 10 = 5)
             \/ (c = "6" /\ n % 10 = 6) \/ (c = "7" /\ n % 10 = 7)
             \/ (c = "8" /\ n % 10 = 8) \/ (c = "9" /\ n % 10 = 9)
  IN IF n < 10 THEN <<d>> ELSE str_of_nat(n \div 10) \o <<d>>

(***************************************************************************)
(* The regular expressions of the code.                                    *)
(***************************************************************************)
\* the number of digits at positions p, p+1, ... of s, at most max (greedy \d{..max})
DigitRun(s, p, max) ==
  Cardinality({k \in 1..max : \A j \in 0..(k - 1) : p + j <= Len(s) /\ s[p + j] \in Digits})

\* r'\d{1,2}[/-]\d{1,2}[/-]\d{2,4}' matched at position p: the position after the
\* match, 0 when there is no match at p
DateEndAt(s, p) ==
  LET a == DigitRun(s, p, 2)
      q == p + a + 1
      b == DigitRun(s, q, 2)
      r == q + b + 1
      c == DigitRun(s, r, 4)
  IN IF /\ p >= 1
        /\ a >= 1 /\ p + a <= Len(s) /\ s[p + a] \in DateSeparators
        /\ b >= 1 /\ q + b <= Len(s) /\ s[q + b] \in DateSeparators
        /\ c >= 2
     THEN r + c ELSE 0

\* re.search(r'\d{1,2}[/-]\d{1,2}[/-]\d{2,4}', s) finds a match
has_date_pattern(s) == \E p \in 1..Len(s) : DateEndAt(s, p) # 0

\* the leftmost match of the date pattern as <<start, end>> (1-based, end exclusive)
DateSearch(s) ==
  LET p == CHOOSE q \in 1..Len(s) :
             DateEndAt(s, q) # 0 /\ \A r \in 1..(q - 1) : DateEndAt(s, r) = 0
  IN <<p, DateEndAt(s, p)>>

\* re.search(r'[\d,]+\.?\d*', s) finds a match: one digit or comma is enough
has_amount_pattern(s) == \E p \in 1..Len(s) : s[p] \in AmountChars

\* r'[\d,]+\.?\d*' matched greedily at p (s[p] is a digit or comma): the position
\* after the match
AmountEndAt(s, p) ==
  LET RunEnd(from, chars) ==
        CHOOSE e \in from..(Len(s) + 1) :
          /\ \A k \in from..(e - 1) : s[k] \in chars
          /\ (e = Len(s) + 1 \/ s[e] \notin chars)
      e1 == RunEnd(p, AmountChars)
      e2 == IF e1 <= Len(s) /\ s[e1] = "." THEN e1 + 1 ELSE e1
  IN RunEnd(e2, Digits)

\* re.findall(r'([\d,]+\.?\d*)', s): the non-overlapping matches, left to right
RECURSIVE AmountFindAllFrom(_, _)
AmountFindAllFrom(s, from) ==
  LET hits == {p \in from..Len(s) : s[p] \in AmountChars}
  IN IF hits = {} THEN <<>>
     ELSE LET p == CHOOSE q \in hits : \A r \in hits : q <= r
              e == AmountEndAt(s, p)
          IN <<SubSeq(s, p, e - 1)>> \o AmountFindAllFrom(s, e)

amount_findall(s) == AmountFindAllFrom(s, 1)

\* re.match(r'^[\d,]+\.?\d*$', s): the whole of s is digits and commas (one at
\* least), then an optional point, then digits
amount_fullmatch(s) ==
  /\ s # <<>>
  /\ s[1] \in AmountChars
  /\ AmountEndAt(s, 1) = Len(s) + 1

\* re.sub(r'[^\d.,]', '', s)
keep_amount_chars(s) == SelectSeq(s, LAMBDA c : c \in AmountChars \cup {"."})

\* s.replace(',', '')
remove_commas(s) == SelectSeq(s, LAMBDA c : c # ",")

(***************************************************************************)
(* Python values held in a record's data mapping (Dict[str, Any]).         *)
(***************************************************************************)
PyNone == <<"None">>
PyStr(s) == <<"str", s>>
PyFloat(hundredths) == <<"float", hundredths>>

(***************************************************************************)
(* The fixed keyword, prefix and name tables of the code.                  *)
(***************************************************************************)
bank_indicators ==
  << <<"b", "a", "n", "k">>,
     <<"s", "t", "a", "t", "e", "m", "e", "n", "t">>,
     <<"a", "c", "c", "o", "u", "n", "t">>,
     <<"b", "a", "l", "a", "n", "c", "e">>,
     <<"t", "r", "a", "n", "s", "a", "c", "t", "i", "o", "n">>,
     <<"d", "e", "b", "i", "t">>,
     <<"c", "r", "e", "d", "i", "t">> >>

invoice_indicators ==
  << <<"i", "n", "v", "o", "i", "c", "e">>,
     <<"b", "i", "l", "l">>,
     <<"a", "m", "o", "u", "n", "t", " ", "d", "u", "e">>,
     <<"p", "a", "y", "m", "e", "n", "t", " ", "t", "e", "r", "m", "s">>,
     <<"i", "n", "v", "o", "i", "c", "e", " ", "n", "u", "m", "b", "e", "r">> >>

sales_indicators ==
  << <<"s", "a", "l", "e", "s">>,
     <<"c", "u", "s", "t", "o", "m", "e", "r">>,
     <<"i", "n", "v", "o", "i", "c", "e">>,
     <<"g", "s", "t">>,
     <<"t", "a", "x">>,
     <<"t", "o", "t", "a", "l", " ", "a", "m", "o", "u", "n", "t">> >>

purchase_indicators ==
  << <<"p", "u", "r", "c", "h", "a", "s", "e">>,
     <<"v", "e", "n", "d", "o", "r">>,
     <<"s", "u", "p", "p", "l", "i", "e", "r">>,
     <<"b", "i", "l", "l">>,
     <<"g", "s", "t">>,
     <<"t", "a", "x">> >>

\* the keyword lists of detect_field_type, in the order they are tried: date,
\* amount, debit, credit, balance, reference, description, customer, vendor, invoice
field_keywords ==
  <<
    << <<"d", "a", "t", "e">>,
       <<"d", "t">>,
       <<"t", "i", "m", "e">> >>,
    << <<"a", "m", "o", "u", "n", "t">>,
       <<"a", "m", "t">>,
       <<"v", "a", "l", "u", "e">>,
       <<"t", "o", "t", "a", "l">> >>,
    << <<"d", "e", "b", "i", "t">>,
       <<"d", "r">>,
       <<"w", "i", "t", "h", "d", "r", "a", "w", "a", "l">>,
       <<"e", "x", "p", "e", "n", "s", "e">> >>,
    << <<"c", "r", "e", "d", "i", "t">>,
       <<"c", "r">>,
       <<"d", "e", "p", "o", "s", "i", "t">>,
       <<"i", "n", "c", "o", "m", "e">> >>,
    << <<"b", "a", "l", "a", "n", "c", "e">>,
       <<"b", "a", "l">>,
       <<"c", "l", "o", "s", "i", "n", "g">> >>,
    << <<"r", "e", "f", "e", "r", "e", "n", "c", "e">>,
       <<"r", "e", "f">>,
       <<"c", "h", "e", "q", "u", "e">>,
       <<"c", "h", "q">>,
       <<"t", "x", "n">> >>,
    << <<"d", "e", "s", "c", "r", "i", "p", "t", "i", "o", "n">>,
       <<"d", "e", "s", "c">>,
       <<"p", "a", "r", "t", "i", "c", "u", "l", "a", "r", "s">>,
       <<"n", "a", "r", "r", "a", "t", "i", "o", "n">> >>,
    << <<"c", "u", "s", "t", "o", "m", "e", "r">>,
       <<"c", "l", "i", "e", "n", "t">>,
       <<"p", "a", "r", "t", "y">> >>,
    << <<"v", "e", "n", "d", "o", "r">>,
       <<"s", "u", "p", "p", "l", "i", "e", "r">> >>,
    << <<"i", "n", "v", "o", "i", "c", "e">>,
       <<"b", "i", "l", "l">>,
       <<"v", "o", "u", "c", "h", "e", "r">> >>
  >>

header_keywords ==
  << <<"d", "a", "t", "e">>,
     <<"d", "e", "s", "c", "r", "i", "p", "t", "i", "o", "n">>,
     <<"a", "m", "o", "u", "n", "t">>,
     <<"d", "e", "b", "i", "t">>,
     <<"c", "r", "e", "d", "i", "t">>,
     <<"b", "a", "l", "a", "n", "c", "e">>,
     <<"r", "e", "f", "e", "r", "e", "n", "c", "e">>,
     <<"i", "n", "v", "o", "i", "c", "e">>,
     <<"c", "u", "s", "t", "o", "m", "e", "r">>,
     <<"v", "e", "n", "d", "o", "r">>,
     <<"t", "a", "x">> >>

debit_keywords ==
  << <<"p", "a", "y", "m", "e", "n", "t">>,
     <<"e", "x", "p", "e", "n", "s", "e">>,
     <<"b", "i", "l", "l">>,
     <<"c", "h", "a", "r", "g", "e">>,
     <<"p", "u", "r", "c", "h", "a", "s", "e">>,
     <<"r", "e", "n", "t">>,
     <<"u", "t", "i", "l", "i", "t", "y">>,
     <<"i", "n", "s", "u", "r", "a", "n", "c", "e">>,
     <<"l", "i", "c", "e", "n", "s", "e">>,
     <<"s", "u", "p", "p", "l", "i", "e", "s">>,
     <<"m", "a", "r", "k", "e", "t", "i", "n", "g">>,
     <<"e", "q", "u", "i", "p", "m", "e", "n", "t">>,
     <<"f", "r", "e", "e", "l", "a", "n", "c", "e", "r">> >>

credit_keywords ==
  << <<"r", "e", "c", "e", "i", "v", "e", "d">>,
     <<"d", "e", "p", "o", "s", "i", "t">>,
     <<"r", "e", "v", "e", "n", "u", "e">>,
     <<"i", "n", "c", "o", "m", "e">>,
     <<"r", "e", "t", "a", "i", "n", "e", "r">>,
     <<"c", "o", "n", "s", "u", "l", "t", "i", "n", "g">>,
     <<"s", "e", "r", "v", "i", "c", "e">>,
     <<"c", "l", "i", "e", "n", "t">> >>

NAME_Date == <<"D", "a", "t", "e">>
NAME_Description == <<"D", "e", "s", "c", "r", "i", "p", "t", "i", "o", "n">>
NAME_Reference == <<"R", "e", "f", "e", "r", "e", "n", "c", "e">>
NAME_Debit == <<"D", "e", "b", "i", "t", " ", "A", "m", "o", "u", "n", "t">>
NAME_Credit == <<"C", "r", "e", "d", "i", "t", " ", "A", "m", "o", "u", "n", "t">>
NAME_Balance == <<"B", "a", "l", "a", "n", "c", "e">>
NAME_Amount == <<"A", "m", "o", "u", "n", "t">>
NAME_Customer == <<"C", "u", "s", "t", "o", "m", "e", "r">>
NAME_Vendor == <<"V", "e", "n", "d", "o", "r">>
NAME_Invoice == <<"I", "n", "v", "o", "i", "c", "e", " ", "N", "u", "m", "b", "e", "r">>
NAME_Tax == <<"T", "a", "x">>
KEY_id == <<"i", "d">>
KEY_confidence == <<"c", "o", "n", "f", "i", "d", "e", "n", "c", "e">>
KEY_source == <<"s", "o", "u", "r", "c", "e">>
PREFIX_DEP == <<"D", "E", "P">>
PREFIX_CHQ == <<"C", "H", "Q">>
PREFIX_AUTO == <<"A", "U", "T", "O">>
PREFIX_OB == <<"O", "B">>
pdf_record == <<"p", "d", "f", "-", "r", "e", "c", "o", "r", "d", "-">>
fallback_record_prefix == <<"f", "a", "l", "l", "b", "a", "c", "k", "-", "r", "e", "c", "o", "r", "d", "-">>
universal_pdf_extraction == <<"u", "n", "i", "v", "e", "r", "s", "a", "l", "_", "p", "d", "f", "_", "e", "x", "t", "r", "a", "c", "t", "i", "o", "n">>
fallback_extraction == <<"f", "a", "l", "l", "b", "a", "c", "k", "_", "e", "x", "t", "r", "a", "c", "t", "i", "o", "n">>

\* class FieldType
FieldTypes ==
  {"date", "description", "reference", "amount", "debit", "credit", "balance",
   "account", "invoice_number", "customer", "vendor", "tax", "unknown"}

\* sum(1 for keyword in keywords if keyword in s)
keyword_score(keywords, s) ==
  Cardinality({k \in 1..Len(keywords) : Contains(s, keywords[k])})

\* any(keyword in s for keyword in keywords)
any_keyword(keywords, s) == \E k \in 1..Len(keywords) : Contains(s, keywords[k])

(***************************************************************************)
(* PDFIntelligenceEngine                                                   *)
(***************************************************************************)
DocTypes == <<"bank_statement", "invoice", "sales_register", "purchase_register">>

\* classify_document_type with 'invoice' left out of the sales register keywords
classify_scores_without_shared_invoice(text) ==
  LET text_lower == lower(text)
  IN << keyword_score(bank_indicators, text_lower),
        keyword_score(invoice_indicators, text_lower),
        keyword_score(SelectSeq(sales_indicators, LAMBDA k : k # <<"i", "n", "v", "o", "i", "c", "e">>),
                      text_lower),
        keyword_score(purchase_indicators, text_lower) >>

classify_scores(text) ==
  LET text_lower == lower(text)
  IN << keyword_score(bank_indicators, text_lower),
        keyword_score(invoice_indicators, text_lower),
        keyword_score(sales_indicators, text_lower),
        keyword_score(purchase_indicators, text_lower) >>

\* classify_document_type preferring the last key of maximal score
classify_document_type_last_max(text) ==
  LET scores == classify_scores(text)
      k == CHOOSE i \in 1..4 :
             /\ \A j \in 1..4 : scores[j] <= scores[i]
             /\ \A j \in (i + 1)..4 : scores[j] < scores[i]
      confidence == IF scores[k] * 10 < 100 THEN scores[k] * 10 ELSE 100
  IN <<DocTypes[k], confidence>>

\* max(scores, key=scores.get): the first key, in insertion order, of maximal score
classify_document_type(text) ==
  LET scores == classify_scores(text)
      k == CHOOSE i \in 1..4 :
             /\ \A j \in 1..4 : scores[j] <= scores[i]
             /\ \A j \in 1..(i - 1) : scores[j] < scores[i]
      \* min(score / 10.0, 1.0), in hundredths
      confidence == IF scores[k] * 10 < 100 THEN scores[k] * 10 ELSE 100
  IN <<DocTypes[k], confidence>>

\* sum(1 for val in sample_values[:5] if <pattern found in val>)
sample_count(sample_values, Found(_)) ==
  Cardinality({i \in 1..Len(sample_values) : i <= 5 /\ Found(sample_values[i])})

\* detect_field_type testing the debit keywords before the amount keywords
detect_field_type_debit_before_amount(header, sample_values) ==
  LET header_lower == strip(lower(header))
  IN IF any_keyword(field_keywords[1], header_lower) THEN "date"
     ELSE IF any_keyword(field_keywords[3], header_lower) THEN "debit"
     ELSE IF any_keyword(field_keywords[2], header_lower) THEN "amount"
     ELSE IF any_keyword(field_keywords[4], header_lower) THEN "credit"
     ELSE IF any_keyword(field_keywords[5], header_lower) THEN "balance"
     ELSE IF any_keyword(field_keywords[6], header_lower) THEN "reference"
     ELSE IF any_keyword(field_keywords[7], header_lower) THEN "description"
     ELSE IF any_keyword(field_keywords[8], header_lower) THEN "customer"
     ELSE IF any_keyword(field_keywords[9], header_lower) THEN "vendor"
     ELSE IF any_keyword(field_keywords[10], header_lower) THEN "invoice_number"
     ELSE IF sample_values # <<>>
               /\ sample_count(sample_values, has_date_pattern) * 10 > Len(sample_values) * 6
          THEN "date"
     ELSE IF sample_values # <<>>
               /\ sample_count(sample_values, has_amount_pattern) * 10 > Len(sample_values) * 6
          THEN "amount"
     ELSE "unknown"

detect_field_type(header, sample_values) ==
  LET header_lower == strip(lower(header))
  IN IF any_keyword(field_keywords[1], header_lower) THEN "date"
     ELSE IF any_keyword(field_keywords[2], header_lower) THEN "amount"
     ELSE IF any_keyword(field_keywords[3], header_lower) THEN "debit"
     ELSE IF any_keyword(field_keywords[4], header_lower) THEN "credit"
     ELSE IF any_keyword(field_keywords[5], header_lower) THEN "balance"
     ELSE IF any_keyword(field_keywords[6], header_lower) THEN "reference"
     ELSE IF any_keyword(field_keywords[7], header_lower) THEN "description"
     ELSE IF any_keyword(field_keywords[8], header_lower) THEN "customer"
     ELSE IF any_keyword(field_keywords[9], header_lower) THEN "vendor"
     ELSE IF any_keyword(field_keywords[10], header_lower) THEN "invoice_number"
     ELSE IF sample_values # <<>>
               /\ sample_count(sample_values, has_date_pattern) * 10 > Len(sample_values) * 6
          THEN "date"
     ELSE IF sample_values # <<>>
               /\ sample_count(sample_values, has_amount_pattern) * 10 > Len(sample_values) * 6
          THEN "amount"
     ELSE "unknown"

(***************************************************************************)
(* TableStructureDetector                                                  *)
(***************************************************************************)
min_table_lines == 3

_is_table_line(line) ==
  LET has_date == has_date_pattern(line)
      has_amount == has_amount_pattern(line)
      has_multiple_fields == Len(split(line)) >= 3
      has_tabs == \E i \in 1..Len(line) : line[i] = TAB
  IN (has_date /\ has_amount) \/ has_tabs \/ (has_multiple_fields /\ has_amount)

_is_header_line(line) == keyword_score(header_keywords, lower(line)) >= 2

\* _check_column_consistency counting the lines that have the field count of the
\* first line
_check_column_consistency_of_first_line(lines) ==
  IF Len(lines) < 2 THEN 0
  ELSE Cardinality({i \in 1..Len(lines) : Len(split(lines[i])) = Len(split(lines[1]))})

\* the number of lines holding the most common field count, over len(lines), as the
\* numerator alone (0 for fewer than 2 lines)
_check_column_consistency(lines) ==
  LET field_counts == [i \in 1..Len(lines) |-> Len(split(lines[i]))]
      count(c) == Cardinality({i \in 1..Len(lines) : field_counts[i] = c})
  IN IF Len(lines) < 2 THEN 0
     ELSE CHOOSE m \in 1..Len(lines) :
            /\ \E i \in 1..Len(lines) : count(field_counts[i]) = m
            /\ \A i \in 1..Len(lines) : count(field_counts[i]) <= m

\* date_ratio * 0.4 + amount_ratio * 0.4 + consistent_columns * 0.2 as the exact
\* fraction <<numerator, denominator>>
_calculate_table_confidence(lines) ==
  IF lines = <<>> THEN <<0, 1>>
  ELSE LET date_lines == Cardinality({i \in 1..Len(lines) : has_date_pattern(lines[i])})
           amount_lines == Cardinality({i \in 1..Len(lines) : has_amount_pattern(lines[i])})
           consistent == _check_column_consistency(lines)
           num == 4 * date_lines + 4 * amount_lines + 2 * consistent
           den == 10 * Len(lines)
       IN IF num > den THEN <<1, 1>> ELSE <<num, den>>

_check_fixed_width_structure(lines) == FALSE

_determine_table_type(lines) ==
  IF lines = <<>> THEN "unknown"
  ELSE LET tab_lines == Cardinality({i \in 1..Len(lines) :
                                       \E k \in 1..Len(lines[i]) : lines[i][k] = TAB})
       IN IF tab_lines * 2 > Len(lines) THEN "tab_separated"
          ELSE IF _check_fixed_width_structure(lines) THEN "fixed_width"
          ELSE "space_separated"

\* TableRegion(...) as the three places of detect_table_boundaries build it
TableRegion(start_line, end_line, lines) ==
  [start_line |-> start_line, end_line |-> end_line, lines |-> lines,
   confidence |-> _calculate_table_confidence(lines),
   table_type |-> _determine_table_type(lines)]

\* a / b >= n / d for fractions <<a, b>> with positive denominators
FracGeq(f, n, d) == f[1] * d >= n * f[2]
FracGt(f, g) == f[1] * g[2] > g[1] * f[2]

\* max(table_regions, key=lambda t: t.confidence): the first region of maximal confidence
best_region(table_regions) ==
  LET k == CHOOSE i \in 1..Len(table_regions) :
             /\ \A j \in 1..Len(table_regions) :
                  ~FracGt(table_regions[j].confidence, table_regions[i].confidence)
             /\ \A j \in 1..(i - 1) :
                  FracGt(table_regions[i].confidence, table_regions[j].confidence)
  IN table_regions[k]

(***************************************************************************)
(* SemanticFieldMapper                                                     *)
(***************************************************************************)
\* the first of the first five lines with the highest keyword score, when that
\* score is at least 2; else the first line
_find_header_line(lines) ==
  LET n == IF Len(lines) < 5 THEN Len(lines) ELSE 5
      score(i) == keyword_score(header_keywords, lower(lines[i]))
      best == CHOOSE i \in 1..n :
                /\ \A j \in 1..n : score(j) <= score(i)
                /\ \A j \in 1..(i - 1) : score(j) < score(i)
  IN IF score(best) >= 2 THEN lines[best] ELSE lines[1]

_extract_headers(header_line) ==
  LET multi == re_split_2ws(header_line)
      headers == IF \E i \in 1..Len(header_line) : header_line[i] = TAB
                   THEN split_on(header_line, TAB)
                 ELSE IF \E i \in 1..Len(header_line) : header_line[i] = "|"
                   THEN split_on(header_line, "|")
                 ELSE IF Len(multi) = 1 THEN split(header_line)
                 ELSE multi
      kept == SelectSeq(headers, LAMBDA h : strip(h) # <<>>)
  IN [i \in 1..Len(kept) |-> strip(kept[i])]

_is_data_line(raw) ==
  LET line == strip(raw)
  IN /\ Len(line) >= 5
     /\ (has_date_pattern(line) \/ has_amount_pattern(line))

\* one_amount_layout with the description keywords consulted before the
\* reference prefixes
one_amount_layout_keywords_before_prefix(date_part, description, reference, amount, balance) ==
  LET desc_lower == lower(description)
  IN IF any_keyword(debit_keywords, desc_lower)
       THEN <<date_part, description, reference, amount, <<>>, balance>>
     ELSE IF any_keyword(credit_keywords, desc_lower)
       THEN <<date_part, description, reference, <<>>, amount, balance>>
     ELSE IF startswith(reference, PREFIX_DEP)
       THEN <<date_part, description, reference, <<>>, amount, balance>>
     ELSE IF startswith(reference, PREFIX_OB)
       THEN <<date_part, description, reference, <<>>, <<>>, amount>>
     ELSE <<date_part, description, reference, amount, <<>>, balance>>

\* one_amount_layout with the credit keywords tested before the debit keywords
one_amount_layout_credit_keywords_first(date_part, description, reference, amount, balance) ==
  IF startswith(reference, PREFIX_DEP)
    THEN <<date_part, description, reference, <<>>, amount, balance>>
  ELSE IF startswith(reference, PREFIX_CHQ) \/ startswith(reference, PREFIX_AUTO)
    THEN <<date_part, description, reference, amount, <<>>, balance>>
  ELSE IF startswith(reference, PREFIX_OB)
    THEN <<date_part, description, reference, <<>>, <<>>, amount>>
  ELSE LET desc_lower == lower(description)
       IN IF any_keyword(credit_keywords, desc_lower)
            THEN <<date_part, description, reference, <<>>, amount, balance>>
          ELSE <<date_part, description, reference, amount, <<>>, balance>>

\* lines 1323-1344: one amount candidate, five or more natural columns
one_amount_layout(date_part, description, reference, amount, balance) ==
  IF startswith(reference, PREFIX_DEP)
    THEN <<date_part, description, reference, <<>>, amount, balance>>
  ELSE IF startswith(reference, PREFIX_CHQ) \/ startswith(reference, PREFIX_AUTO)
    THEN <<date_part, description, reference, amount, <<>>, balance>>
  ELSE IF startswith(reference, PREFIX_OB)
    THEN <<date_part, description, reference, <<>>, <<>>, amount>>
  ELSE LET desc_lower == lower(description)
       IN IF any_keyword(debit_keywords, desc_lower)
            THEN <<date_part, description, reference, amount, <<>>, balance>>
          ELSE IF any_keyword(credit_keywords, desc_lower)
            THEN <<date_part, description, reference, <<>>, amount, balance>>
          ELSE <<date_part, description, reference, amount, <<>>, balance>>

\* two_amount_layout without the reference prefixes: the description decides
two_amount_layout_by_description(date_part, description, reference, transaction_amount, balance) ==
  LET desc_lower == lower(description)
  IN IF any_keyword(debit_keywords, desc_lower)
       THEN <<date_part, description, reference, transaction_amount, <<>>, balance>>
     ELSE IF any_keyword(credit_keywords, desc_lower)
       THEN <<date_part, description, reference, <<>>, transaction_amount, balance>>
     ELSE <<date_part, description, reference, transaction_amount, <<>>, balance>>

\* two_amount_layout in the five positions date, description, reference, amount,
\* balance of a statement with one amount column
two_amount_layout_amount_then_balance(date_part, description, reference, transaction_amount, balance) ==
  <<date_part, description, reference, transaction_amount, balance>>

\* lines 1366-1387: two amount candidates
two_amount_layout(date_part, description, reference, transaction_amount, balance) ==
  IF startswith(reference, PREFIX_DEP)
    THEN <<date_part, description, reference, <<>>, transaction_amount, balance>>
  ELSE IF startswith(reference, PREFIX_CHQ) \/ startswith(reference, PREFIX_AUTO)
    THEN <<date_part, description, reference, transaction_amount, <<>>, balance>>
  ELSE IF startswith(reference, PREFIX_OB)
    THEN <<date_part, description, reference, <<>>, <<>>, balance>>
  ELSE LET desc_lower == lower(description)
       IN IF any_keyword(debit_keywords, desc_lower)
            THEN <<date_part, description, reference, transaction_amount, <<>>, balance>>
          ELSE IF any_keyword(credit_keywords, desc_lower)
            THEN <<date_part, description, reference, <<>>, transaction_amount, balance>>
          ELSE <<date_part, description, reference, transaction_amount, <<>>, balance>>

\* natural_columns: re.split on two or more spaces, else the single-space split
natural_split(line) ==
  LET multi == re_split_2ws(line)
  IN IF Len(multi) < 2 THEN split(line) ELSE multi

\* the columns that are purely numeric once their commas are removed
amount_candidates(natural_columns) ==
  SelectSeq(natural_columns, LAMBDA col : amount_fullmatch(remove_commas(col)))

\* one_amount_columns without the four-column case of lines 1309-1311
one_amount_columns_general(natural_columns, amounts) ==
  LET n == Len(natural_columns)
      amount == amounts[1]
      balance == IF natural_columns[n] # amount THEN natural_columns[n] ELSE <<>>
      desc_parts == IF balance # <<>> THEN Slice(natural_columns, 2, n - 2)
                    ELSE Slice(natural_columns, 2, n - 1)
      m == Len(desc_parts)
      description == IF m > 1 THEN join(<<SPACE>>, Slice(desc_parts, 1, m - 1))
                     ELSE join(<<SPACE>>, desc_parts)
      reference == IF m > 1 THEN desc_parts[m] ELSE <<>>
  IN one_amount_layout(natural_columns[1], description, reference, amount, balance)

\* one_amount_columns with a sole amount in the last column taken as the balance,
\* whatever the number of columns
one_amount_columns_last_is_balance(natural_columns, amounts) ==
  LET n == Len(natural_columns)
  IN IF natural_columns[n] = amounts[1]
       THEN <<natural_columns[1], join(<<SPACE>>, Slice(natural_columns, 2, n - 2)),
              natural_columns[n - 1], <<>>, <<>>, natural_columns[n]>>
     ELSE one_amount_columns_general(natural_columns, amounts)

\* lines 1307-1344
one_amount_columns(natural_columns, amounts) ==
  LET n == Len(natural_columns)
  IN IF n = 4
       THEN <<natural_columns[1], natural_columns[2], natural_columns[3],
              <<>>, <<>>, natural_columns[4]>>
     ELSE LET amount == amounts[1]
              balance == IF natural_columns[n] # amount THEN natural_columns[n] ELSE <<>>
              desc_parts == IF balance # <<>> THEN Slice(natural_columns, 2, n - 2)
                            ELSE Slice(natural_columns, 2, n - 1)
              m == Len(desc_parts)
              description == IF m > 1 THEN join(<<SPACE>>, Slice(desc_parts, 1, m - 1))
                             ELSE join(<<SPACE>>, desc_parts)
              reference == IF m > 1 THEN desc_parts[m] ELSE <<>>
          IN one_amount_layout(natural_columns[1], description, reference, amount, balance)

\* lines 1346-1387
two_amount_columns(natural_columns, amounts) ==
  LET balance == amounts[2]
      transaction_amount == amounts[1]
      desc_parts == SelectSeq(Tail(natural_columns),
                              LAMBDA col : \A k \in 1..Len(amounts) : col # amounts[k])
      m == Len(desc_parts)
      description == IF m > 1 THEN join(<<SPACE>>, Slice(desc_parts, 1, m - 1))
                     ELSE join(<<SPACE>>, desc_parts)
      reference == IF m > 1 THEN desc_parts[m] ELSE <<>>
  IN two_amount_layout(natural_columns[1], description, reference,
                       transaction_amount, balance)

\* lines 1275-1394: the columns before cleaning, padding and truncation
raw_columns(line) ==
  IF \E i \in 1..Len(line) : line[i] = TAB THEN split_on(line, TAB)
  ELSE IF \E i \in 1..Len(line) : line[i] = "|" THEN split_on(line, "|")
  ELSE LET natural_columns == natural_split(line)
           amounts == amount_candidates(natural_columns)
       IN IF DateEndAt(line, 1) # 0 /\ Len(natural_columns) >= 4
            THEN IF Len(amounts) = 1 THEN one_amount_columns(natural_columns, amounts)
                 ELSE IF Len(amounts) = 2 THEN two_amount_columns(natural_columns, amounts)
                 ELSE natural_columns
          ELSE natural_columns

\* pad_and_truncate without the padding loop of lines 1400-1401
truncate_only(columns, expected_columns) ==
  [i \in 1..(IF Len(columns) < expected_columns THEN Len(columns) ELSE expected_columns)
     |-> strip(columns[i])]

\* pad_and_truncate without the cut of line 1403
pad_only(columns, expected_columns) ==
  [i \in 1..(IF Len(columns) < expected_columns THEN expected_columns ELSE Len(columns))
     |-> IF i <= Len(columns) THEN strip(columns[i]) ELSE <<>>]

\* lines 1396-1403: strip every column, pad with '' and cut to expected_columns
pad_and_truncate(columns, expected_columns) ==
  [i \in 1..expected_columns |-> IF i <= Len(columns) THEN strip(columns[i]) ELSE <<>>]

_split_line_into_columns(line, expected_columns) ==
  pad_and_truncate(raw_columns(line), expected_columns)

\* the values of column i over lines[1:6] that look like data, empty values left
\* out; a line contributes to the columns it has (enumerate(columns), line 1253)
_extract_sample_data(lines, num_columns) ==
  LET last == IF Len(lines) < 6 THEN Len(lines) ELSE 6
      sampled == SelectSeq(Slice(lines, 2, last), _is_data_line)
      cols == [k \in 1..Len(sampled) |-> _split_line_into_columns(sampled[k], num_columns)]
  IN [i \in 1..num_columns |->
        LET vals == [k \in 1..Len(sampled) |->
                       IF i <= Len(cols[k]) THEN strip(cols[k][i]) ELSE <<>>]
        IN SelectSeq(vals, LAMBDA v : v # <<>>)]

_map_to_standard_name(field_type, original_name) ==
  CASE field_type = "date" -> NAME_Date
    [] field_type = "description" -> NAME_Description
    [] field_type = "reference" -> NAME_Reference
    [] field_type = "debit" -> NAME_Debit
    [] field_type = "credit" -> NAME_Credit
    [] field_type = "balance" -> NAME_Balance
    [] field_type = "amount" -> NAME_Amount
    [] field_type = "customer" -> NAME_Customer
    [] field_type = "vendor" -> NAME_Vendor
    [] field_type = "invoice_number" -> NAME_Invoice
    [] field_type = "tax" -> NAME_Tax
    [] OTHER -> original_name

\* FieldMapping(...) of header i
FieldMapping(header, sample_values) ==
  LET field_type == detect_field_type(header, sample_values)
  IN [original_name |-> header,
      field_type |-> field_type,
      standard_name |-> _map_to_standard_name(field_type, header),
      confidence |-> 80,
      sample_values |-> Slice(sample_values, 1, IF Len(sample_values) < 3
                                                  THEN Len(sample_values) ELSE 3)]

discover_fields(table_lines) ==
  IF table_lines = <<>> THEN <<>>
  ELSE LET header_line == _find_header_line(table_lines)
       IN IF header_line = <<>> THEN <<>>
          ELSE LET headers == _extract_headers(header_line)
                   sample_data == _extract_sample_data(table_lines, Len(headers))
               IN [i \in 1..Len(headers) |-> FieldMapping(headers[i], sample_data[i])]

(***************************************************************************)
(* DataExtractionOrchestrator                                              *)
(***************************************************************************)
AmountTypes == {"amount", "debit", "credit", "balance"}

\* _process_field_value with the null words compared without lower()
_process_field_value_case_sensitive(value, field_type) ==
  LET cleaned == keep_amount_chars(value)
  IN IF value \in {<<>>, <<"-">>, <<"n", "i", "l">>, <<"n", "u", "l", "l">>}
       THEN PyNone
     ELSE IF field_type \in AmountTypes /\ cleaned # <<>> THEN PyStr(cleaned)
     ELSE PyStr(value)

\* the result is PyNone or PyStr(..)
_process_field_value(value, field_type) ==
  LET cleaned == keep_amount_chars(value)
  IN IF \/ value = <<>>
        \/ lower(value) \in {<<>>, <<"-">>, <<"n", "i", "l">>, <<"n", "u", "l", "l">>}
       THEN PyNone
     ELSE IF field_type \in AmountTypes /\ cleaned # <<>> THEN PyStr(cleaned)
     ELSE PyStr(value)

\* d[key] = value on a dict held as a function
DictSet(d, key, value) ==
  [k \in (DOMAIN d) \cup {key} |-> IF k = key THEN value ELSE d[k]]

EmptyDict == [k \in {} |-> PyNone]

\* lines 1446-1452: record_data after the loop over the first n field mappings
RECURSIVE record_fields(_, _, _)
record_fields(columns, field_mappings, n) ==
  IF n = 0 THEN EmptyDict
  ELSE LET before == record_fields(columns, field_mappings, n - 1)
           mapping == field_mappings[n]
       IN IF n <= Len(columns)
            THEN DictSet(before, mapping.standard_name,
                         _process_field_value(strip(columns[n]), mapping.field_type))
          ELSE before

\* lines 1441-1464: the record of one data line, as the n-th record (0-based)
extract_record(line, field_mappings, n) ==
  LET columns == _split_line_into_columns(line, Len(field_mappings))
      fields == record_fields(columns, field_mappings, Len(field_mappings))
      with_id == DictSet(fields, KEY_id, PyStr(pdf_record \o str_of_nat(n)))
      with_conf == DictSet(with_id, KEY_confidence, PyFloat(85))
      record_data == DictSet(with_conf, KEY_source, PyStr(universal_pdf_extraction))
  IN [row_index |-> n, data |-> record_data, confidence |-> 85]

(***************************************************************************)
(* _fallback_line_processing                                               *)
(***************************************************************************)
\* lines 1511-1519: the stripped line yields a record
fallback_matches(raw) ==
  LET line == strip(raw)
  IN Len(line) >= 10 /\ has_date_pattern(line) /\ amount_findall(line) # <<>>

\* lines 1520-1539: the record of a matching line, as the n-th record (0-based)
fallback_record(raw, n) ==
  LET line == strip(raw)
      date_match == DateSearch(line)
      amount_matches == amount_findall(line)
      date_end == date_match[2] - 1
      first_amount_start == find(line, amount_matches[1], date_end)
      \* line[date_end:first_amount_start]; a stop of -1 means "up to the last
      \* character, excluded"
      stop == IF first_amount_start < 0 THEN Len(line) + first_amount_start
              ELSE first_amount_start
      description == strip(Slice(line, date_end + 1, stop))
      record_data ==
        DictSet(DictSet(DictSet(DictSet(DictSet(DictSet(EmptyDict,
          NAME_Date, PyStr(SubSeq(line, date_match[1], date_match[2] - 1))),
          NAME_Description, PyStr(description)),
          NAME_Amount, PyStr(amount_matches[1])),
          KEY_id, PyStr(fallback_record_prefix \o str_of_nat(n))),
          KEY_confidence, PyFloat(60)),
          KEY_source, PyStr(fallback_extraction))
  IN [row_index |-> n, data |-> record_data, confidence |-> 60]

(***************************************************************************)
(* Steps of detect_table_boundaries, extract_data and                      *)
(* _fallback_line_processing as functions of the loop state.               *)
(***************************************************************************)
None == -1

\* close_region without the test of min_table_lines: every run that ends is emitted
close_region_any_length(start, run, regions, i) ==
  IF start # None
    THEN Append(regions, TableRegion(start, i - 1, run))
  ELSE regions

\* close_region with the line that ends the run counted as the region's last line
close_region_ending_on_closing_line(start, run, regions, i) ==
  IF start # None /\ Len(run) >= min_table_lines
    THEN Append(regions, TableRegion(start, i, run))
  ELSE regions

\* lines 1024-1038 and 1051-1066: emit the open run when it is long enough, then
\* forget it; i is the 0-based index of the line that ends the run
close_region(start, run, regions, i) ==
  IF start # None /\ Len(run) >= min_table_lines
    THEN Append(regions, TableRegion(start, i - 1, run))
  ELSE regions

\* detect_step without the test `current_table_start is None` of line 1043: each
\* table line restarts the run's first index
detect_step_restarting(start, run, regions, i, raw) ==
  LET line == strip(raw)
  IN IF line = <<>>
       THEN <<None, <<>>, close_region(start, run, regions, i)>>
     ELSE IF _is_table_line(line)
       THEN <<i, Append(run, line), regions>>
     ELSE IF start = None /\ _is_header_line(line)
       THEN <<i, Append(run, line), regions>>
     ELSE IF start # None
       THEN <<None, <<>>, close_region(start, run, regions, i)>>
     ELSE <<start, run, regions>>

\* detect_step with an open region taking every non-blank line
detect_step_absorbing(start, run, regions, i, raw) ==
  LET line == strip(raw)
  IN IF line = <<>>
       THEN <<None, <<>>, close_region(start, run, regions, i)>>
     ELSE IF _is_table_line(line) \/ start # None
       THEN <<IF start = None THEN i ELSE start, Append(run, line), regions>>
     ELSE IF _is_header_line(line)
       THEN <<i, Append(run, line), regions>>
     ELSE <<start, run, regions>>

\* detect_step with a blank line leaving a short run open
detect_step_blank_keeps_short_run(start, run, regions, i, raw) ==
  LET line == strip(raw)
  IN IF line = <<>>
       THEN IF Len(run) >= min_table_lines
              THEN <<None, <<>>, close_region(start, run, regions, i)>>
            ELSE <<start, run, regions>>
     ELSE IF _is_table_line(line)
       THEN <<IF start = None THEN i ELSE start, Append(run, line), regions>>
     ELSE IF start = None /\ _is_header_line(line)
       THEN <<i, Append(run, line), regions>>
     ELSE IF start # None
       THEN <<None, <<>>, close_region(start, run, regions, i)>>
     ELSE <<start, run, regions>>

\* detect_step with a header line that ends an open run starting the next one
detect_step_header_reopens(start, run, regions, i, raw) ==
  LET line == strip(raw)
  IN IF line = <<>>
       THEN <<None, <<>>, close_region(start, run, regions, i)>>
     ELSE IF _is_table_line(line)
       THEN <<IF start = None THEN i ELSE start, Append(run, line), regions>>
     ELSE IF _is_header_line(line)
       THEN <<i, <<line>>, close_region(start, run, regions, i)>>
     ELSE IF start # None
       THEN <<None, <<>>, close_region(start, run, regions, i)>>
     ELSE <<start, run, regions>>

\* lines 1021-1066: one iteration of the loop, on the line of 0-based index i;
\* the result is <<current_table_start, current_table_lines, table_regions>>
detect_step(start, run, regions, i, raw) ==
  LET line == strip(raw)
  IN IF line = <<>>
       THEN <<None, <<>>, close_region(start, run, regions, i)>>
     ELSE IF _is_table_line(line)
       THEN <<IF start = None THEN i ELSE start, Append(run, line), regions>>
     ELSE IF start = None /\ _is_header_line(line)
       THEN <<i, Append(run, line), regions>>
     ELSE IF start # None
       THEN <<None, <<>>, close_region(start, run, regions, i)>>
     ELSE <<start, run, regions>>

\* lines 1068-1081: the table at the end of the document
detect_finish(start, run, regions, n) ==
  IF start # None /\ Len(run) >= min_table_lines
    THEN Append(regions, TableRegion(start, n - 1, run))
  ELSE regions

\* extract_step leaving out the lines that split into fewer columns than there are
\* field mappings
extract_step_skipping_short_lines(recs, line, mappings) ==
  IF ~_is_data_line(line) \/ Len(raw_columns(line)) < Len(mappings) THEN recs
  ELSE Append(recs, extract_record(line, mappings, Len(recs)))

\* lines 1437-1464: one iteration of the loop of extract_data
extract_step(recs, line, mappings) ==
  IF ~_is_data_line(line) THEN recs
  ELSE Append(recs, extract_record(line, mappings, Len(recs)))

\* lines 1468-1478
extraction_result(recs, table_region, mappings) ==
  [records |-> recs,
   total_records |-> Len(recs),
   extraction_confidence |-> IF recs # <<>> THEN 85 ELSE 30,
   schema_detected |->
     [format |-> "universal_pdf",
      table_type |-> table_region.table_type,
      headers |-> join(<<",", SPACE>>,
                       [k \in 1..Len(mappings) |-> mappings[k].standard_name])],
   processing_notes |-> <<<<"Universal extraction", Len(recs), table_region.table_type>>>>]

\* lines 1510-1539: one iteration of the loop of _fallback_line_processing
fallback_step(recs, raw) ==
  IF fallback_matches(raw) THEN Append(recs, fallback_record(raw, Len(recs)))
  ELSE recs

\* fallback_result with the confidence of the empty table path, 0.3, for no record
fallback_result_as_table(recs) ==
  [records |-> recs,
   total_records |-> Len(recs),
   extraction_confidence |-> IF recs # <<>> THEN 60 ELSE 30,
   schema_detected |-> [format |-> "fallback_extraction"],
   processing_notes |-> <<<<"Fallback extraction", Len(recs)>>>>]

\* lines 1543-1549
fallback_result(recs) ==
  [records |-> recs,
   total_records |-> Len(recs),
   extraction_confidence |-> IF recs # <<>> THEN 60 ELSE 20,
   schema_detected |-> [format |-> "fallback_extraction"],
   processing_notes |-> <<<<"Fallback extraction", Len(recs)>>>>]

\* the except clauses of lines 997-1005, 1480-1488 and 1551-1559
failure_result(note, e) ==
  [records |-> <<>>,
   total_records |-> 0,
   extraction_confidence |-> 0,
   schema_detected |-> [k \in {} |-> ""],
   processing_notes |-> <<<<note, e>>>>]

\* enclosing_try without the try block of process_pdf_document
enclosing_try_inner_only(stage) ==
  CASE stage = "extract" -> "extract_data"
    [] stage = "fallback" -> "_fallback_line_processing"
    [] OTHER -> ""

\* the try block that encloses each stage of the pipeline: the function whose
\* except clause catches an exception raised there ("" if none did)
enclosing_try(stage) ==
  CASE stage \in {"classify", "detect_loop", "detected", "discover"}
         -> "process_pdf_document"
    [] stage = "extract" -> "extract_data"
    [] stage = "fallback" -> "_fallback_line_processing"
    [] OTHER -> ""

\* the note each except clause writes
failure_note(handler) ==
  CASE handler = "process_pdf_document" -> "Universal PDF processing failed"
    [] handler = "extract_data" -> "Data extraction failed"
    [] handler = "_fallback_line_processing" -> "Fallback processing failed"
    [] OTHER -> ""

(***************************************************************************)
(* Inputs: the texts the pipeline is run on.                               *)
(***************************************************************************)
LINE_blank ==
  <<>>
LINE_header ==
  <<"D", "a", "t", "e", " ", "D", "e", "s", "c", " ", "R", "e", "f", " ", "D", "e", "b", "i", "t", " ", "C", "r", "e", "d", "i", "t", " ", "B", "a", "l", "a", "n", "c", "e">>
LINE_two_amounts ==
  <<"1", "/", "2", "/", "2", "5", " ", " ", "R", "e", "n", "t", " ", " ", "C", "H", "Q", "1", " ", " ", "5", " ", " ", "9">>
LINE_plain ==
  <<"H", "e", "l", "l", "o">>
LINE_tabbed ==
  <<"a", TAB, "b">>
LINE_dated ==
  <<"1", "/", "2", "/", "2", "5", " ", "a", " ", "5">>
SCENARIO_header ==
  <<"D", "a", "t", "e", " ", "D", "e", "s", "c", "r", "i", "p", "t", "i", "o", "n", " ", "R", "e", "f", "e", "r", "e", "n", "c", "e", " ", "D", "e", "b", "i", "t", " ", "C", "r", "e", "d", "i", "t", " ", "B", "a", "l", "a", "n", "c", "e">>
SCENARIO_opening ==
  <<"0", "1", "/", "0", "1", "/", "2", "0", "2", "5", " ", " ", "O", "p", "e", "n", "i", "n", "g", " ", "B", "a", "l", "a", "n", "c", "e", " ", " ", "O", "B", "0", "0", "1", " ", " ", "5", "0", ",", "0", "0", "0", ".", "0", "0">>
SCENARIO_rent ==
  <<"0", "1", "/", "0", "2", "/", "2", "0", "2", "5", " ", " ", "O", "f", "f", "i", "c", "e", " ", "R", "e", "n", "t", " ", "P", "a", "y", "m", "e", "n", "t", " ", " ", "C", "H", "Q", "0", "0", "1", " ", " ", "1", "5", ",", "0", "0", "0", ".", "0", "0", " ", " ", "3", "5", ",", "0", "0", "0", ".", "0", "0">>
SCENARIO_client ==
  <<"0", "1", "/", "0", "3", "/", "2", "0", "2", "5", " ", " ", "C", "l", "i", "e", "n", "t", " ", "P", "a", "y", "m", "e", "n", "t", " ", "R", "e", "c", "e", "i", "v", "e", "d", " ", " ", "D", "E", "P", "0", "0", "1", " ", " ", "2", "5", ",", "0", "0", "0", ".", "0", "0", " ", " ", "6", "0", ",", "0", "0", "0", ".", "0", "0">>

\* short lines of every kind the detector tells apart
RichLines == {LINE_blank, LINE_header, LINE_two_amounts, LINE_plain, LINE_tabbed}
MaxLines == 4

\* two runs of table lines with a line of one space between them
RunLines == {LINE_tabbed, LINE_dated}
RunLength == 3

\* the bank statement of scripts/create-test-pdf.py: its header, then rows
StatementRows == {SCENARIO_opening, SCENARIO_rent, SCENARIO_client, LINE_dated}
MaxStatementRows == 2

SeqsUpTo(S, n) == UNION {[1..k -> S] : k \in 0..n}

\* every short text of RichLines, the two-run texts, the statements, runs of dated
\* lines some of which also name two header keywords ('Date Balance 1/2/25 5'),
\* and a header line between two tables, the first of which starts with the
\* line ' a<TAB>b '
Texts ==
  {join(<<NL>>, ls) : ls \in SeqsUpTo(RichLines, MaxLines)}
    \cup {join(<<NL>>, a \o <<<<SPACE>>>> \o b) :
            a \in [1..RunLength -> RunLines], b \in [1..RunLength -> RunLines]}
    \cup {join(<<NL>>, <<SCENARIO_header>> \o ls) : ls \in SeqsUpTo(StatementRows, MaxStatementRows)}
    \cup {join(<<NL>>, ls) :
            ls \in [1..RunLength -> {LINE_dated,
                                     <<"D", "a", "t", "e", " ", "B", "a", "l", "a", "n", "c", "e",
                                       " ", "1", "/", "2", "/", "2", "5", " ", "5">>}]}
    \cup {join(<<NL>>, <<<<SPACE>> \o LINE_tabbed \o <<SPACE>>, LINE_tabbed, LINE_tabbed,
                         LINE_header,
                         LINE_two_amounts, LINE_two_amounts, LINE_two_amounts>>)}

\* the lines detect_table_boundaries is fed one at a time, and how many
DetectLines == {LINE_blank, LINE_header, LINE_tabbed, LINE_dated}
MaxDetectLines == 7

(***************************************************************************)
(* State.                                                                  *)
(***************************************************************************)
VARIABLES
  pc,                    \* the stage process_pdf_document is in
  text,                  \* the text extract_text_from_pdf returned
  doc_type,              \* <<doc_type, type_confidence>>
  lines,                 \* text.split('\n') of the running loop
  i,                     \* the 0-based index of the next line of the running loop
  current_table_start,   \* None, or the index of the first line of the open run
  current_table_lines,
  table_regions,
  best_table,            \* <<>> or <<the region chosen>>
  field_mappings,
  records,
  result,                \* <<>> or <<the ExtractionResult returned>>
  raised,                \* the stage an exception was raised in, "" if none was
  propagated,            \* an exception left process_pdf_document
  stages,                \* history: the stages entered so far
  detected_count,        \* history: len(table_regions) when detection returned, else None
  call                   \* a single call of a helper function: its arguments and result

vars ==
  <<pc, text, doc_type, lines, i, current_table_start, current_table_lines,
    table_regions, best_table, field_mappings, records, result, raised, propagated,
    stages, detected_count, call>>

NoCall == [fn |-> "none"]

Idle ==
  /\ doc_type = <<"", 0>>
  /\ lines = <<>>
  /\ i = 0
  /\ current_table_start = None
  /\ current_table_lines = <<>>
  /\ table_regions = <<>>
  /\ best_table = <<>>
  /\ field_mappings = <<>>
  /\ records = <<>>
  /\ result = <<>>
  /\ raised = ""
  /\ propagated = FALSE
  /\ detected_count = None

Init ==
  /\ pc = "classify"
  /\ stages = {"classify"}
  /\ text \in Texts
  /\ Idle
  /\ call = NoCall

\* the next stage is entered
Enter(stage) ==
  /\ pc' = stage
  /\ stages' = stages \cup {stage}

(***************************************************************************)
(* process_pdf_document, one action per stage and per loop iteration.      *)
(***************************************************************************)
\* lines 968-970, then 973-974 and 1016-1019
Classify ==
  /\ pc = "classify"
  /\ doc_type' = classify_document_type(text)
  /\ lines' = split_on(text, NL)
  /\ i' = 0
  /\ current_table_start' = None
  /\ current_table_lines' = <<>>
  /\ table_regions' = <<>>
  /\ Enter("detect_loop")
  /\ UNCHANGED <<text, best_table, field_mappings, records, result, raised, propagated,
                 detected_count, call>>

\* lines 1021-1066
DetectLine ==
  /\ pc = "detect_loop"
  /\ i < Len(lines)
  /\ LET next == detect_step(current_table_start, current_table_lines, table_regions,
                             i, lines[i + 1])
     IN /\ current_table_start' = next[1]
        /\ current_table_lines' = next[2]
        /\ table_regions' = next[3]
  /\ i' = i + 1
  /\ UNCHANGED <<pc, text, doc_type, lines, best_table, field_mappings, records, result,
                 raised, propagated, stages, detected_count, call>>

\* lines 1068-1081 and 975
DetectEnd ==
  /\ pc = "detect_loop"
  /\ i = Len(lines)
  /\ table_regions' = detect_finish(current_table_start, current_table_lines,
                                    table_regions, Len(lines))
  /\ detected_count' = Len(table_regions')
  /\ Enter("detected")
  /\ UNCHANGED <<text, doc_type, lines, i, current_table_start, current_table_lines,
                 best_table, field_mappings, records, result, raised, propagated, call>>

\* FallbackStart without the test `not table_regions` of line 977
FallbackStartUnguarded ==
  /\ pc = "detected"
  /\ lines' = split_on(text, NL)
  /\ i' = 0
  /\ records' = <<>>
  /\ Enter("fallback")
  /\ UNCHANGED <<text, doc_type, current_table_start, current_table_lines, table_regions,
                 best_table, field_mappings, result, raised, propagated, detected_count,
                 call>>

\* lines 977-979 and 1506-1507
FallbackStart ==
  /\ pc = "detected"
  /\ table_regions = <<>>
  /\ lines' = split_on(text, NL)
  /\ i' = 0
  /\ records' = <<>>
  /\ Enter("fallback")
  /\ UNCHANGED <<text, doc_type, current_table_start, current_table_lines, table_regions,
                 best_table, field_mappings, result, raised, propagated, detected_count,
                 call>>

\* lines 1510-1539
FallbackLine ==
  /\ pc = "fallback"
  /\ i < Len(lines)
  /\ records' = fallback_step(records, lines[i + 1])
  /\ i' = i + 1
  /\ UNCHANGED <<pc, text, doc_type, lines, current_table_start, current_table_lines,
                 table_regions, best_table, field_mappings, result, raised, propagated,
                 stages, detected_count, call>>

\* lines 1543-1549
FallbackReturn ==
  /\ pc = "fallback"
  /\ i = Len(lines)
  /\ result' = <<fallback_result(records)>>
  /\ Enter("done")
  /\ UNCHANGED <<text, doc_type, lines, i, current_table_start, current_table_lines,
                 table_regions, best_table, field_mappings, records, raised, propagated,
                 detected_count, call>>

\* lines 981-983
SelectBest ==
  /\ pc = "detected"
  /\ table_regions # <<>>
  /\ best_table' = <<best_region(table_regions)>>
  /\ Enter("discover")
  /\ UNCHANGED <<text, doc_type, lines, i, current_table_start, current_table_lines,
                 table_regions, field_mappings, records, result, raised, propagated,
                 detected_count, call>>

\* lines 986-988 and 1433-1434
Discover ==
  /\ pc = "discover"
  /\ field_mappings' = discover_fields(best_table[1].lines)
  /\ records' = <<>>
  /\ i' = 0
  /\ Enter("extract")
  /\ UNCHANGED <<text, doc_type, lines, current_table_start, current_table_lines,
                 table_regions, best_table, result, raised, propagated, detected_count,
                 call>>

\* lines 1437-1464: line_idx is i, the line is table_region.lines[1:][line_idx]
ExtractLine ==
  /\ pc = "extract"
  /\ i < Len(best_table[1].lines) - 1
  /\ records' = extract_step(records, best_table[1].lines[i + 2], field_mappings)
  /\ i' = i + 1
  /\ UNCHANGED <<pc, text, doc_type, lines, current_table_start, current_table_lines,
                 table_regions, best_table, field_mappings, result, raised, propagated,
                 stages, detected_count, call>>

\* lines 1466-1478 and 994-995
ExtractReturn ==
  /\ pc = "extract"
  /\ i = Len(best_table[1].lines) - 1
  /\ result' = <<extraction_result(records, best_table[1], field_mappings)>>
  /\ Enter("done")
  /\ UNCHANGED <<text, doc_type, lines, i, current_table_start, current_table_lines,
                 table_regions, best_table, field_mappings, records, raised, propagated,
                 detected_count, call>>

\* An exception raised in the current stage: classification, table detection,
\* field discovery (which splits the sample lines), extraction (which splits the
\* data lines) or the fallback scan.  The except clause of the enclosing try block
\* returns the failure result; the locals of the frames left behind are gone.
\* Outside every try block the exception leaves process_pdf_document.
RaiseException ==
  /\ pc \in {"classify", "detect_loop", "discover", "extract", "fallback"}
  /\ raised' = pc
  /\ LET handler == enclosing_try(pc)
     IN IF handler # ""
          THEN /\ result' = <<failure_result(failure_note(handler), "Exception")>>
               /\ propagated' = FALSE
        ELSE /\ result' = <<>>
             /\ propagated' = TRUE
  /\ Enter("done")
  /\ doc_type' = <<"", 0>>
  /\ lines' = <<>>
  /\ i' = 0
  /\ current_table_start' = None
  /\ current_table_lines' = <<>>
  /\ table_regions' = <<>>
  /\ best_table' = <<>>
  /\ field_mappings' = <<>>
  /\ records' = <<>>
  /\ UNCHANGED <<text, detected_count, call>>

Next ==
  \/ Classify
  \/ DetectLine
  \/ DetectEnd
  \/ FallbackStart
  \/ FallbackLine
  \/ FallbackReturn
  \/ SelectBest
  \/ Discover
  \/ ExtractLine
  \/ ExtractReturn
  \/ RaiseException

Spec == Init /\ [][Next]_vars

(***************************************************************************)
(* detect_table_boundaries alone, on every text of up to MaxDetectLines    *)
(* lines: the loop never looks ahead, so each line is chosen when the loop *)
(* reaches it.                                                             *)
(***************************************************************************)
InitDetect ==
  /\ pc = "detect_loop"
  /\ stages = {"detect_loop"}
  /\ text = <<>>
  /\ Idle
  /\ call = NoCall

\* lines 1021-1066, on a text whose next line is `line`
DetectNextLine ==
  /\ pc = "detect_loop"
  /\ i = Len(lines)
  /\ i < MaxDetectLines
  /\ \E line \in DetectLines :
       /\ lines' = Append(lines, line)
       /\ text' = IF i = 0 THEN line ELSE text \o <<NL>> \o line
       /\ LET next == detect_step(current_table_start, current_table_lines,
                                  table_regions, i, line)
          IN /\ current_table_start' = next[1]
             /\ current_table_lines' = next[2]
             /\ table_regions' = next[3]
  /\ i' = i + 1
  /\ UNCHANGED <<pc, doc_type, best_table, field_mappings, records, result, raised,
                 propagated, stages, detected_count, call>>

\* lines 1068-1081: the text ends here (a text of one line at least)
DetectReturn ==
  /\ pc = "detect_loop"
  /\ i = Len(lines)
  /\ i >= 1
  /\ table_regions' = detect_finish(current_table_start, current_table_lines,
                                    table_regions, Len(lines))
  /\ detected_count' = Len(table_regions')
  /\ Enter("detected")
  /\ UNCHANGED <<text, doc_type, lines, i, current_table_start, current_table_lines,
                 best_table, field_mappings, records, result, raised, propagated, call>>

NextDetect ==
  \/ DetectNextLine
  \/ DetectReturn

SpecDetect == InitDetect /\ [][NextDetect]_vars

(***************************************************************************)
(* _split_line_into_columns and the record extract_data builds from a      *)
(* line, on date-led lines of up to MaxTokens further columns.             *)
(***************************************************************************)

\* the columns a line is made of: a word that is neither a keyword nor a
\* reference, a reference of the prefixes CHQ, DEP and OB, and two amounts
SplitTokens ==
  {<<"G", "i", "f", "t">>,
   <<"C", "H", "Q", "1">>, <<"D", "E", "P", "1">>, <<"O", "B", "1">>,
   <<"5">>, <<"1", ",", "0", ".", "5">>}
MaxTokens == 4

\* lines the tab and pipe branches take: '1/2/25  a|b  CHQ1  5  9',
\* '1/2/25  a|b  OB1  9', '1/2/25  Rent<TAB>CHQ1  5  9' and ' a | b | c'
SeparatorLines ==
  {<<"1", "/", "2", "/", "2", "5", " ", " ", "a", "|", "b", " ", " ",
     "C", "H", "Q", "1", " ", " ", "5", " ", " ", "9">>,
   <<"1", "/", "2", "/", "2", "5", " ", " ", "a", "|", "b", " ", " ",
     "O", "B", "1", " ", " ", "9">>,
   <<"1", "/", "2", "/", "2", "5", " ", " ", "R", "e", "n", "t", TAB,
     "C", "H", "Q", "1", " ", " ", "5", " ", " ", "9">>,
   <<" ", "a", " ", "|", " ", "b", " ", "|", " ", "c">>}

\* the date '1/2/25' and up to MaxTokens columns, two spaces between them; and
\* the date, a description with a debit keyword ('Rent'), a credit keyword
\* ('Income') or both ('Payment received'), a reference, and the amount '5'
\* before or after a last column
SplitInputs ==
  {join(<<SPACE, SPACE>>, <<<<"1", "/", "2", "/", "2", "5">>>> \o ts) :
     ts \in SeqsUpTo(SplitTokens, MaxTokens)}
    \cup SeparatorLines
    \cup {join(<<SPACE, SPACE>>,
                <<<<"1", "/", "2", "/", "2", "5">>, description, reference>> \o rest) :
            description \in {<<"R", "e", "n", "t">>, <<"I", "n", "c", "o", "m", "e">>,
                             <<"P", "a", "y", "m", "e", "n", "t", " ",
                               "r", "e", "c", "e", "i", "v", "e", "d">>},
            reference \in {<<"C", "H", "Q", "1">>, <<"D", "E", "P", "1">>,
                           <<"A", "U", "T", "O", "1">>, <<"O", "B", "1">>,
                           <<"G", "i", "f", "t">>},
            rest \in {<<<<"5">>, <<"G", "i", "f", "t">>>>,
                      <<<<"5">>, <<"1", ",", "0", ".", "5">>>>,
                      <<<<"D", "E", "P", "1">>, <<"5">>>>,
                      <<<<"G", "i", "f", "t">>, <<"5">>>>}}

MinExpected == 5
MaxExpected == 6
\* expected column counts below the number of columns of most lines
ShortExpected == {0, 2}

\* the field mappings discover_fields finds under the header of the statement
\* of scripts/create-test-pdf.py; every header of it is typed by a keyword, so
\* the types and names are the same whatever the rows under the header are
statement_mappings == discover_fields(<<SCENARIO_header>>)

InitSplit ==
  /\ pc = "call"
  /\ stages = {}
  /\ text = <<>>
  /\ Idle
  /\ call \in {[fn |-> "pending", line |-> l] : l \in SplitInputs}

\* a call of _split_line_into_columns(line, expected_columns)
SplitLine ==
  /\ call.fn = "pending"
  /\ \E n \in (MinExpected..MaxExpected) \cup ShortExpected :
       call' = [fn |-> "_split_line_into_columns", line |-> call.line,
                expected_columns |-> n,
                ret |-> _split_line_into_columns(call.line, n)]
  /\ UNCHANGED <<pc, text, doc_type, lines, i, current_table_start, current_table_lines,
                 table_regions, best_table, field_mappings, records, result, raised,
                 propagated, stages, detected_count>>

\* one iteration of the loop of extract_data on the line, under the statement's
\* field mappings
ExtractRecord ==
  /\ call.fn = "pending"
  /\ call' = [fn |-> "extract_step", line |-> call.line,
              ret |-> extract_step(<<>>, call.line, statement_mappings)]
  /\ UNCHANGED <<pc, text, doc_type, lines, i, current_table_start, current_table_lines,
                 table_regions, best_table, field_mappings, records, result, raised,
                 propagated, stages, detected_count>>

NextSplit ==
  \/ SplitLine
  \/ ExtractRecord

SpecSplit == InitSplit /\ [][NextSplit]_vars

(***************************************************************************)
(* _process_field_value on every value of up to MaxValueLen characters.    *)
(***************************************************************************)
ValueChars == {"1", ",", ".", "-", "x"}
MaxValueLen == 3
Values ==
  SeqsUpTo(ValueChars, MaxValueLen)
    \cup {<<"N", "i", "l">>, <<"N", "U", "L", "L">>, <<"R", "s", ".", "1", ",", "0">>}

InitValue ==
  /\ pc = "call"
  /\ stages = {}
  /\ text = <<>>
  /\ Idle
  /\ call \in {[fn |-> "pending", value |-> v, field_type |-> t] :
                 v \in Values, t \in FieldTypes}

ProcessValue ==
  /\ call.fn = "pending"
  /\ call' = [fn |-> "_process_field_value", value |-> call.value,
              field_type |-> call.field_type,
              ret |-> _process_field_value(call.value, call.field_type)]
  /\ UNCHANGED <<pc, text, doc_type, lines, i, current_table_start, current_table_lines,
                 table_regions, best_table, field_mappings, records, result, raised,
                 propagated, stages, detected_count>>

NextValue == ProcessValue

SpecValue == InitValue /\ [][NextValue]_vars

(***************************************************************************)
(* PDFIntelligenceEngine alone.  classify_document_type runs on texts made *)
(* of keywords: every selection of ClassifyWords in order, followed by up  *)
(* to MaxRepeats more copies of one of them.  detect_field_type runs on    *)
(* headers of one or two words and on the sample lists _extract_sample_data*)
(* can build, which hold at most 5 values (lines[1:6], main.py 1250).      *)
(***************************************************************************)
ClassifyWords ==
  << <<"I", "n", "v", "o", "i", "c", "e">>, <<"c", "u", "s", "t", "o", "m", "e", "r">>,
     <<"G", "S", "T">>, <<"t", "a", "x">>,
     <<"s", "t", "a", "t", "e", "m", "e", "n", "t">>, <<"a", "c", "c", "o", "u", "n", "t">>,
     <<"d", "e", "b", "i", "t">>, <<"c", "r", "e", "d", "i", "t">>,
     <<"B", "a", "n", "k">>, <<"v", "e", "n", "d", "o", "r">> >>

MaxRepeats == 1

ClassifyTexts ==
  LET selected(S) == SelectSeq([k \in 1..Len(ClassifyWords) |-> k], LAMBDA k : k \in S)
      words(S) == [k \in 1..Len(selected(S)) |-> ClassifyWords[selected(S)[k]]]
  IN {join(<<SPACE>>, words(S) \o [k \in 1..r |-> ClassifyWords[w]]) :
        S \in SUBSET (1..Len(ClassifyWords)), w \in 1..Len(ClassifyWords), r \in 0..MaxRepeats}

\* a word with a keyword of each list of detect_field_type, and two with none
HeaderWords ==
  { <<"D", "a", "t", "e">>, <<"T", "o", "t", "a", "l">>,
    <<"W", "i", "t", "h", "d", "r", "a", "w", "a", "l">>, <<"D", "e", "p", "o", "s", "i", "t">>,
    <<"C", "l", "o", "s", "i", "n", "g">>, <<"C", "h", "q">>,
    <<"D", "e", "s", "c", "r", "i", "p", "t", "i", "o", "n">>, <<"P", "a", "r", "t", "y">>,
    <<"S", "u", "p", "p", "l", "i", "e", "r">>, <<"V", "o", "u", "c", "h", "e", "r">>,
    <<"T", "a", "x">>, <<"N", "a", "m", "e">> }

FieldHeaders ==
  HeaderWords \cup {a \o <<SPACE>> \o b : a \in HeaderWords, b \in HeaderWords}

\* a date, an amount and a word
SampleValues == { <<"1", "/", "2", "/", "2", "5">>, <<"5">>, <<"x">> }

SampleLists == UNION {[1..n -> SampleValues] : n \in 0..5}

InitEngine ==
  /\ Idle
  /\ \/ /\ pc = "classify"
        /\ stages = {"classify"}
        /\ text \in ClassifyTexts
        /\ call = NoCall
     \/ /\ pc = "call"
        /\ stages = {}
        /\ text = <<>>
        /\ call \in {[fn |-> "pending", header |-> h, sample_values |-> v] :
                       h \in FieldHeaders, v \in SampleLists}

ClassifyDocument ==
  /\ pc = "classify"
  /\ doc_type' = classify_document_type(text)
  /\ Enter("classified")
  /\ UNCHANGED <<text, lines, i, current_table_start, current_table_lines, table_regions,
                 best_table, field_mappings, records, result, raised, propagated,
                 detected_count, call>>

\* lines 1194-1195 of discover_fields: the type of a column and its standard name
DetectFieldType ==
  /\ pc = "call"
  /\ call.fn = "pending"
  /\ LET field_type == detect_field_type(call.header, call.sample_values)
     IN call' = [fn |-> "detect_field_type", header |-> call.header,
                 sample_values |-> call.sample_values, ret |-> field_type,
                 standard_name |-> _map_to_standard_name(field_type, call.header)]
  /\ UNCHANGED <<pc, text, doc_type, lines, i, current_table_start, current_table_lines,
                 table_regions, best_table, field_mappings, records, result, raised,
                 propagated, stages, detected_count>>

NextEngine ==
  \/ ClassifyDocument
  \/ DetectFieldType

SpecEngine == InitEngine /\ [][NextEngine]_vars

(***************************************************************************)
(* The functions of the pipeline as folds of their steps over the lines.   *)
(***************************************************************************)
\* lines 1014-1081
detect_table_boundaries(t) ==
  LET ls == split_on(t, NL)
      state[k \in 0..Len(ls)] ==
        IF k = 0 THEN <<None, <<>>, <<>>>>
        ELSE LET prev == state[k - 1]
             IN detect_step(prev[1], prev[2], prev[3], k - 1, ls[k])
      last == state[Len(ls)]
  IN detect_finish(last[1], last[2], last[3], Len(ls))

\* lines 1430-1478
extract_data(table_region, mappings) ==
  LET recs[k \in 0..(Len(table_region.lines) - 1)] ==
        IF k = 0 THEN <<>> ELSE extract_step(recs[k - 1], table_region.lines[k + 1], mappings)
  IN extraction_result(recs[Len(table_region.lines) - 1], table_region, mappings)

\* lines 1503-1549
_fallback_line_processing(t) ==
  LET ls == split_on(t, NL)
      recs[k \in 0..Len(ls)] ==
        IF k = 0 THEN <<>> ELSE fallback_step(recs[k - 1], ls[k])
  IN fallback_result(recs[Len(ls)])

\* lines 958-995, when no exception is raised
process_pdf_document(t) ==
  LET regions == detect_table_boundaries(t)
  IN IF regions = <<>> THEN _fallback_line_processing(t)
     ELSE LET best == best_region(regions)
          IN extract_data(best, discover_fields(best.lines))

(***************************************************************************)
(* Two calls of process_pdf_document on one event loop.  The variables are *)
(* the locals of the call that is running; `call` holds the locals of the  *)
(* call that is suspended, the number of that call, and the places where   *)
(* the loop has switched so far.  A call can be suspended where it awaits: *)
(* after extract_text_from_pdf (964), on entering _fallback_line_processing*)
(* (979), discover_fields (987) and extract_data (992), and on returning.  *)
(* No injected exception: the steps are total on strings.                  *)
(***************************************************************************)
CallTexts ==
  { join(<<NL>>, <<SCENARIO_header, SCENARIO_opening, SCENARIO_rent>>),
    join(<<NL>>, <<SCENARIO_header, SCENARIO_rent, SCENARIO_client, LINE_dated>>),
    join(<<NL>>, <<LINE_tabbed, LINE_tabbed, LINE_tabbed>>),
    join(<<NL>>, <<LINE_dated, LINE_plain, LINE_two_amounts>>),
    LINE_plain }

Locals ==
  [pc |-> pc, text |-> text, doc_type |-> doc_type, lines |-> lines, i |-> i,
   current_table_start |-> current_table_start,
   current_table_lines |-> current_table_lines, table_regions |-> table_regions,
   best_table |-> best_table, field_mappings |-> field_mappings, records |-> records,
   result |-> result, raised |-> raised, propagated |-> propagated, stages |-> stages,
   detected_count |-> detected_count]

InitTwoCalls ==
  /\ pc = "classify"
  /\ stages = {"classify"}
  /\ text \in CallTexts
  /\ Idle
  /\ call \in {[fn |-> "process_pdf_document", number |-> 2, switched_at |-> {},
                locals |-> [Locals EXCEPT !.text = t]] : t \in CallTexts}

AtAwait ==
  \/ pc \in {"classify", "discover", "done"}
  \/ pc \in {"fallback", "extract"} /\ i = 0

\* Resume with the loop index i shared by the two calls
ResumeSharingLoopIndex ==
  /\ AtAwait
  /\ call.locals.pc # "done"
  /\ pc' = call.locals.pc
  /\ text' = call.locals.text
  /\ doc_type' = call.locals.doc_type
  /\ lines' = call.locals.lines
  /\ i' = i
  /\ current_table_start' = call.locals.current_table_start
  /\ current_table_lines' = call.locals.current_table_lines
  /\ table_regions' = call.locals.table_regions
  /\ best_table' = call.locals.best_table
  /\ field_mappings' = call.locals.field_mappings
  /\ records' = call.locals.records
  /\ result' = call.locals.result
  /\ raised' = call.locals.raised
  /\ propagated' = call.locals.propagated
  /\ stages' = call.locals.stages
  /\ detected_count' = call.locals.detected_count
  /\ call' = [fn |-> "process_pdf_document", number |-> 3 - call.number,
              switched_at |-> call.switched_at \cup {pc}, locals |-> Locals]

\* Resume with the list of records shared by the two calls
ResumeSharingRecords ==
  /\ AtAwait
  /\ call.locals.pc # "done"
  /\ pc' = call.locals.pc
  /\ text' = call.locals.text
  /\ doc_type' = call.locals.doc_type
  /\ lines' = call.locals.lines
  /\ i' = call.locals.i
  /\ current_table_start' = call.locals.current_table_start
  /\ current_table_lines' = call.locals.current_table_lines
  /\ table_regions' = call.locals.table_regions
  /\ best_table' = call.locals.best_table
  /\ field_mappings' = call.locals.field_mappings
  /\ records' = records
  /\ result' = call.locals.result
  /\ raised' = call.locals.raised
  /\ propagated' = call.locals.propagated
  /\ stages' = call.locals.stages
  /\ detected_count' = call.locals.detected_count
  /\ call' = [fn |-> "process_pdf_document", number |-> 3 - call.number,
              switched_at |-> call.switched_at \cup {pc}, locals |-> Locals]

\* the event loop suspends the running call at an await and resumes the other
\* one, which has not returned yet, with the locals it had
Resume ==
  /\ AtAwait
  /\ call.locals.pc # "done"
  /\ pc' = call.locals.pc
  /\ text' = call.locals.text
  /\ doc_type' = call.locals.doc_type
  /\ lines' = call.locals.lines
  /\ i' = call.locals.i
  /\ current_table_start' = call.locals.current_table_start
  /\ current_table_lines' = call.locals.current_table_lines
  /\ table_regions' = call.locals.table_regions
  /\ best_table' = call.locals.best_table
  /\ field_mappings' = call.locals.field_mappings
  /\ records' = call.locals.records
  /\ result' = call.locals.result
  /\ raised' = call.locals.raised
  /\ propagated' = call.locals.propagated
  /\ stages' = call.locals.stages
  /\ detected_count' = call.locals.detected_count
  /\ call' = [fn |-> "process_pdf_document", number |-> 3 - call.number,
              switched_at |-> call.switched_at \cup {pc}, locals |-> Locals]

NextTwoCalls ==
  \/ Classify
  \/ DetectLine
  \/ DetectEnd
  \/ FallbackStart
  \/ FallbackLine
  \/ FallbackReturn
  \/ SelectBest
  \/ Discover
  \/ ExtractLine
  \/ ExtractReturn
  \/ Resume

SpecTwoCalls == InitTwoCalls /\ [][NextTwoCalls]_vars
(***************************************************************************)
(* Properties of detect_table_boundaries (SpecDetect).                     *)
(***************************************************************************)
Regions == {table_regions[k] : k \in 1..Len(table_regions)}

HasDateAndAmount(line) == has_date_pattern(line) /\ has_amount_pattern(line)

\* the 0-based index ranges <<a, b>> of at least 3 consecutive lines of the text
\* that each contain a date pattern and an amount pattern
DateAmountWindows ==
  LET with_both == {k \in 0..(Len(lines) - 1) : HasDateAndAmount(lines[k + 1])}
  IN {w \in (0..(Len(lines) - 1)) \X (0..(Len(lines) - 1)) :
        /\ w[2] >= w[1] + 2
        /\ \A k \in w[1]..w[2] : k \in with_both}

Covers(r, w) == r.start_line <= w[1] /\ w[2] <= r.end_line

date_line_count(ls) == Cardinality({k \in 1..Len(ls) : has_date_pattern(ls[k])})

\* C1, as stated: whenever the text holds at least 3 consecutive lines that each
\* contain a date and an amount pattern, the list detect_table_boundaries returns
\* has a region that spans those lines and has confidence >= 0.5, whatever the
\* other lines are.
C1_AnyNeighbours ==
  pc = "detected" =>
    \A w \in DateAmountWindows :
      \E r \in Regions : Covers(r, w) /\ FracGeq(r.confidence, 1, 2)

\* C1: whenever the text holds at least 3 consecutive lines that each contain a
\* date and an amount pattern, the list detect_table_boundaries returns has a
\* region that spans those lines; the confidence of that region is >= 0.5 when
\* at least 5/8 of the region's lines contain a date pattern.
C1_RegionSpansDateAmountLines ==
  pc = "detected" =>
    \A w \in DateAmountWindows :
      \E r \in Regions :
        /\ Covers(r, w)
        /\ 8 * date_line_count(r.lines) >= 5 * Len(r.lines)
             => FracGeq(r.confidence, 1, 2)

\* detection returned a region that spans 3 date-and-amount lines together with
\* a line that has no date, and has enough dated lines for confidence 0.5
C1_Witness ==
  /\ pc = "detected"
  /\ \E w \in DateAmountWindows :
       \E r \in Regions :
         /\ Covers(r, w)
         /\ date_line_count(r.lines) < Len(r.lines)
         /\ 8 * date_line_count(r.lines) >= 5 * Len(r.lines)
         /\ FracGeq(r.confidence, 1, 2)

\* C2: every region detect_table_boundaries returns holds at least 3 lines, and
\* the regions are disjoint and in order: each one ends before the next starts.
C2_RegionsLongAndDisjoint ==
  pc = "detected" =>
    /\ \A r \in Regions :
         /\ Len(r.lines) >= 3
         /\ r.end_line - r.start_line + 1 >= 3
    /\ \A j, k \in 1..Len(table_regions) :
         j < k => table_regions[j].end_line < table_regions[k].start_line

\* detection returned two regions
C2_Witness ==
  /\ pc = "detected"
  /\ Len(table_regions) >= 2

(***************************************************************************)
(* Properties of process_pdf_document (Spec).                              *)
(***************************************************************************)
\* process_pdf_document returned the result of extract_data
ExtractDataReturned ==
  /\ pc = "done"
  /\ raised = ""
  /\ "extract" \in stages

\* process_pdf_document returned what _fallback_line_processing built
FallbackReturned ==
  /\ pc = "done"
  /\ raised = ""
  /\ "fallback" \in stages

StandardNames == {field_mappings[k].standard_name : k \in 1..Len(field_mappings)}

MetadataKeys == {KEY_id, KEY_confidence, KEY_source}

\* C3, as stated: the keys of the data of every record extract_data returns are
\* exactly the standard names of the field mappings, none missing and none extra.
C3_KeysAreStandardNames ==
  ExtractDataReturned =>
    \A k \in 1..Len(result[1].records) :
      DOMAIN result[1].records[k].data = StandardNames

\* C3: the keys of the data of every record extract_data returns are the standard
\* names of the field mappings, none missing, together with the three metadata
\* keys 'id', 'confidence' and 'source', and no other.
C3_KeysAreStandardNamesAndMetadata ==
  ExtractDataReturned =>
    \A k \in 1..Len(result[1].records) :
      DOMAIN result[1].records[k].data = StandardNames \cup MetadataKeys

\* extract_data returned a record built under six field mappings from a line of
\* fewer than six columns
C3_Witness ==
  /\ ExtractDataReturned
  /\ Len(field_mappings) = 6
  /\ Len(result[1].records) = Len(best_table[1].lines) - 1
  /\ \E k \in 1..Len(result[1].records) :
       /\ Len(raw_columns(best_table[1].lines[k + 1])) < 6
       /\ StandardNames \subseteq DOMAIN result[1].records[k].data

FailureNotes ==
  {"Universal PDF processing failed", "Data extraction failed",
   "Fallback processing failed"}

\* C5: an exception raised in classification, table detection, field discovery
\* or line splitting does not leave process_pdf_document: the pipeline returns a
\* result with no record, total_records 0, extraction_confidence 0.0 and one
\* processing note that names the failure.
C5_ExceptionsYieldFailureResult ==
  raised # "" =>
    /\ pc = "done"
    /\ ~propagated
    /\ result # <<>>
    /\ result[1].records = <<>>
    /\ result[1].total_records = 0
    /\ result[1].extraction_confidence = 0
    /\ Len(result[1].processing_notes) = 1
    /\ result[1].processing_notes[1][1] \in FailureNotes
    /\ result[1].processing_notes[1][2] = "Exception"

\* an exception raised by field discovery ended in the failure result
C5_Witness ==
  /\ raised = "discover"
  /\ result # <<>>
  /\ result[1].extraction_confidence = 0

\* C6, as stated: for a region whose header line is 'Date Description Reference
\* Debit Credit Balance', field discovery returns six mappings whose standard
\* names are Date, Description, Reference, Debit Amount, Credit Amount, Balance.
C6_StatementHeaderNames ==
  (pc = "extract" /\ _find_header_line(best_table[1].lines) = SCENARIO_header) =>
    [k \in 1..Len(field_mappings) |-> field_mappings[k].standard_name]
      = <<NAME_Date, NAME_Description, NAME_Reference, NAME_Debit, NAME_Credit,
          NAME_Balance>>

\* C9: the fallback scan runs exactly when detect_table_boundaries returned an
\* empty list.  With a region, the result is the one extract_data builds for the
\* chosen region of the list; with none, the result is the fallback's and field
\* discovery never runs.
C9_FallbackIffNoRegion ==
  detected_count # None =>
    /\ "fallback" \in stages =>
         /\ detected_count = 0
         /\ "discover" \notin stages
         /\ "extract" \notin stages
         /\ field_mappings = <<>>
    /\ "discover" \in stages => detected_count > 0
    /\ pc # "detected" => ("fallback" \in stages <=> detected_count = 0)
    /\ pc # "detected" => ("discover" \in stages <=> detected_count > 0)
    /\ ExtractDataReturned =>
         /\ detected_count > 0
         /\ \E k \in 1..Len(table_regions) : best_table[1] = table_regions[k]
         /\ result[1] = extraction_result(records, best_table[1], field_mappings)
         /\ result[1].schema_detected.format = "universal_pdf"
    /\ FallbackReturned =>
         /\ detected_count = 0
         /\ result[1].schema_detected.format = "fallback_extraction"

\* no region was detected and the fallback scan returned a record
C9_Witness ==
  /\ FallbackReturned
  /\ detected_count = 0
  /\ result[1].records # <<>>

\* the confidence the path taken fixes
path_confidence ==
  IF "extract" \in stages
    THEN IF result[1].records # <<>> THEN 85 ELSE 30
  ELSE IF result[1].records # <<>> THEN 60 ELSE 20

\* C10, as stated: in every result of the pipeline total_records is the number of
\* records, and extraction_confidence is 0.85 or 0.3 on the table path and 0.6 or
\* 0.2 on the fallback path, with or without records; a text with no date pattern
\* and no amount pattern yields no record and confidence 0.2.
C10_ConfidenceByPath ==
  (pc = "done" /\ raised = "") =>
    /\ result[1].total_records = Len(result[1].records)
    /\ result[1].extraction_confidence = path_confidence
    /\ (~has_date_pattern(text) /\ ~has_amount_pattern(text)) =>
         /\ result[1].records = <<>>
         /\ result[1].extraction_confidence = 20

\* C10: in every result of the pipeline total_records is the number of records.
\* When no exception was caught, extraction_confidence is 0.85 or 0.3 on the
\* table path and 0.6 or 0.2 on the fallback path, with or without records, and a
\* text with no date pattern, no amount pattern and no tab character yields no
\* record and confidence 0.2.  The result of a caught exception has no record and
\* confidence 0.0.
C10_ConfidenceByPathWithoutTabs ==
  (pc = "done" /\ result # <<>>) =>
    /\ result[1].total_records = Len(result[1].records)
    /\ raised = "" =>
         /\ result[1].extraction_confidence = path_confidence
         /\ (~has_date_pattern(text) /\ ~has_amount_pattern(text)
               /\ ~Contains(text, <<TAB>>)) =>
              /\ result[1].records = <<>>
              /\ result[1].extraction_confidence = 20
    /\ raised # "" =>
         /\ result[1].records = <<>>
         /\ result[1].extraction_confidence = 0

\* a text of words only, with no date, no amount and no tab, came back with no
\* record and confidence 0.2
C10_Witness ==
  /\ pc = "done"
  /\ raised = ""
  /\ \E k \in 1..Len(text) : text[k] \notin Whitespace
  /\ ~has_date_pattern(text)
  /\ ~has_amount_pattern(text)
  /\ ~Contains(text, <<TAB>>)
  /\ result[1].total_records = 0
  /\ result[1].extraction_confidence = 20

(***************************************************************************)
(* Properties of _process_field_value (SpecValue).                         *)
(***************************************************************************)
\* C4, as stated: for a field of type AMOUNT, DEBIT, CREDIT or BALANCE,
\* _process_field_value returns null or a string made only of digits, commas and
\* at most one decimal point.
C4_AmountCharactersOnly ==
  (call.fn = "_process_field_value" /\ call.field_type \in AmountTypes) =>
    \/ call.ret = PyNone
    \/ /\ call.ret[1] = "str"
       /\ \A k \in 1..Len(call.ret[2]) : call.ret[2][k] \in Digits \cup {",", "."}
       /\ Cardinality({k \in 1..Len(call.ret[2]) : call.ret[2][k] = "."}) <= 1

(***************************************************************************)
(* Properties of _split_line_into_columns (SpecSplit).                     *)
(***************************************************************************)
\* the line has neither a tab nor a pipe, so the split works on natural_columns
NaturalSplitApplies(line) ==
  \A k \in 1..Len(line) : line[k] # TAB /\ line[k] # "|"

StartsWithDate(line) == DateEndAt(line, 1) # 0

\* the reference of a two-amount line: the last of the columns after the date
\* that are not amount candidates, when there are two of them at least
two_amount_reference(line) ==
  LET natural_columns == natural_split(line)
      amounts == amount_candidates(natural_columns)
      others == SelectSeq(Tail(natural_columns),
                          LAMBDA col : \A k \in 1..Len(amounts) : col # amounts[k])
  IN IF Len(others) > 1 THEN others[Len(others)] ELSE <<>>

\* a call of _split_line_into_columns on a line that starts with a date and has
\* at least 4 natural tokens, exactly two of them amount candidates
TwoAmountCall ==
  /\ call.fn = "_split_line_into_columns"
  /\ NaturalSplitApplies(call.line)
  /\ StartsWithDate(call.line)
  /\ Len(natural_split(call.line)) >= 4
  /\ Len(amount_candidates(natural_split(call.line))) = 2

\* the later candidate is in the balance position, and the earlier one in the
\* debit or the credit position as the reference says
TwoAmountPlacement ==
  LET columns == call.ret
      amounts == amount_candidates(natural_split(call.line))
      reference == two_amount_reference(call.line)
      debit == columns[4] = amounts[1] /\ columns[5] = <<>>
      credit == columns[4] = <<>> /\ columns[5] = amounts[1]
  IN /\ Len(columns) >= 6
     /\ columns[6] = amounts[2]
     /\ IF startswith(reference, PREFIX_DEP) THEN credit
        ELSE IF startswith(reference, PREFIX_CHQ) \/ startswith(reference, PREFIX_AUTO)
          THEN debit
        ELSE IF startswith(reference, PREFIX_OB)
          THEN columns[4] = <<>> /\ columns[5] = <<>>
        ELSE debit \/ credit

\* C7, as stated: for a line that starts with a date and has at least 4 natural
\* tokens and exactly two amount candidates, _split_line_into_columns puts the
\* later candidate in the balance position and the earlier one in the credit
\* position when the reference starts with DEP, in the debit position when it
\* starts with CHQ or AUTO, in neither when it starts with OB, and in exactly one
\* of the two otherwise.
C7_TwoAmountPlacementAnyCount ==
  TwoAmountCall => TwoAmountPlacement

\* C7: the same placement, for a call that expects at least 6 columns.
C7_TwoAmountPlacementSixColumns ==
  (TwoAmountCall /\ call.expected_columns >= 6) => TwoAmountPlacement

\* a two-amount line whose reference starts with DEP and whose description holds
\* a debit keyword was split with the earlier amount in the credit position
C7_Witness ==
  /\ TwoAmountCall
  /\ call.expected_columns >= 6
  /\ startswith(two_amount_reference(call.line), PREFIX_DEP)
  /\ Contains(call.line, <<"R", "e", "n", "t">>)
  /\ call.ret[5] = amount_candidates(natural_split(call.line))[1]
  /\ call.ret[6] = amount_candidates(natural_split(call.line))[2]

\* the line starts with a date and has exactly 4 natural tokens, one of them an
\* amount candidate
OneAmountFourTokens(line) ==
  /\ NaturalSplitApplies(line)
  /\ StartsWithDate(line)
  /\ Len(natural_split(line)) = 4
  /\ Len(amount_candidates(natural_split(line))) = 1

\* the record has Debit and Credit null and the amount as its Balance
OpeningBalanceRecord(record, amount) ==
  /\ {NAME_Debit, NAME_Credit, NAME_Balance} \subseteq DOMAIN record.data
  /\ record.data[NAME_Debit] = PyNone
  /\ record.data[NAME_Credit] = PyNone
  /\ record.data[NAME_Balance] = PyStr(amount)

\* C8, as stated: for a line that starts with a date and has exactly 4 natural
\* tokens and exactly one amount candidate, a call that expects 6 columns returns
\* empty debit and credit positions and the amount candidate in the balance
\* position, and the record of the line has Debit and Credit null and Balance
\* equal to that amount.
C8_FourTokensAmountIsBalance ==
  LET amounts == amount_candidates(natural_split(call.line))
  IN /\ (call.fn = "_split_line_into_columns" /\ call.expected_columns = 6
           /\ OneAmountFourTokens(call.line)) =>
          /\ call.ret[4] = <<>>
          /\ call.ret[5] = <<>>
          /\ call.ret[6] = amounts[1]
     /\ (call.fn = "extract_step" /\ OneAmountFourTokens(call.line)) =>
          /\ Len(call.ret) = 1
          /\ OpeningBalanceRecord(call.ret[1], amounts[1])

\* C8: for a line that starts with a date and has exactly 4 natural tokens and
\* exactly one amount candidate, a call that expects 6 columns returns empty
\* debit and credit positions and the fourth token in the balance position; when
\* the fourth token is the amount candidate, the record of the line has Debit and
\* Credit null and Balance equal to that amount.
C8_FourTokensLastIsBalance ==
  LET natural_columns == natural_split(call.line)
      amounts == amount_candidates(natural_columns)
  IN /\ (call.fn = "_split_line_into_columns" /\ call.expected_columns = 6
           /\ OneAmountFourTokens(call.line)) =>
          /\ call.ret[4] = <<>>
          /\ call.ret[5] = <<>>
          /\ call.ret[6] = natural_columns[4]
     /\ (call.fn = "extract_step" /\ OneAmountFourTokens(call.line)
           /\ natural_columns[4] = amounts[1]) =>
          /\ Len(call.ret) = 1
          /\ OpeningBalanceRecord(call.ret[1], amounts[1])

\* the record of a four-token line that ends with its one amount was built, with
\* a reference that would make the amount a debit on a longer line
C8_Witness ==
  /\ call.fn = "extract_step"
  /\ OneAmountFourTokens(call.line)
  /\ natural_split(call.line)[3] = <<"C", "H", "Q", "1">>
  /\ natural_split(call.line)[4] = <<"1", ",", "0", ".", "5">>
  /\ OpeningBalanceRecord(call.ret[1], <<"1", ",", "0", ".", "5">>)

(***************************************************************************)
(* Properties of classify_document_type (SpecEngine).                      *)
(***************************************************************************)
Classified == pc = "classified"

\* the keyword occurs in the lower-cased text
Mentions(word) == Contains(lower(text), word)

SalesTextWithoutBank ==
  /\ Mentions(<<"i", "n", "v", "o", "i", "c", "e">>)
  /\ Mentions(<<"c", "u", "s", "t", "o", "m", "e", "r">>)
  /\ Mentions(<<"g", "s", "t">>)
  /\ Mentions(<<"t", "a", "x">>)
  /\ ~Mentions(<<"b", "a", "n", "k">>)
  /\ ~Mentions(<<"b", "a", "l", "a", "n", "c", "e">>)

\* how many of 'statement', 'account', 'transaction', 'debit', 'credit' occur in the text
other_bank_keywords ==
  Cardinality({w \in { <<"s", "t", "a", "t", "e", "m", "e", "n", "t">>,
                       <<"a", "c", "c", "o", "u", "n", "t">>,
                       <<"t", "r", "a", "n", "s", "a", "c", "t", "i", "o", "n">>,
                       <<"d", "e", "b", "i", "t">>, <<"c", "r", "e", "d", "i", "t">> } :
                 Mentions(w)})

occurrences(s, keyword) ==
  Cardinality({p \in 1..(Len(s) - Len(keyword) + 1) :
                 s[p] = keyword[1] /\ SubSeq(s, p, p + Len(keyword) - 1) = keyword})

RECURSIVE occurrence_score(_, _)
occurrence_score(keywords, s) ==
  IF keywords = <<>> THEN 0
  ELSE occurrences(s, Head(keywords)) + occurrence_score(Tail(keywords), s)

\* the number of keywords of the list that occur in the text at least once
RECURSIVE presence_score(_, _)
presence_score(keywords, s) ==
  IF keywords = <<>> THEN 0
  ELSE (IF occurrences(s, Head(keywords)) > 0 THEN 1 ELSE 0)
         + presence_score(Tail(keywords), s)

\* the category k comes first among those of maximal score, and the confidence
\* is min(score / 10, 1.0), in hundredths
FirstOfMaximalScore(score(_, _)) ==
  LET text_lower == lower(text)
      s == << score(bank_indicators, text_lower), score(invoice_indicators, text_lower),
              score(sales_indicators, text_lower), score(purchase_indicators, text_lower) >>
  IN \E k \in 1..4 :
       /\ doc_type[1] = DocTypes[k]
       /\ \A j \in 1..4 : s[j] <= s[k]
       /\ \A j \in 1..(k - 1) : s[j] < s[k]
       /\ doc_type[2] = IF s[k] >= 10 THEN 100 ELSE s[k] * 10

\* C18, as stated: the classifier returns the first category, in the order
\* bank_statement, invoice, sales_register, purchase_register, whose score is
\* maximal, the score being the number of occurrences of the category's keywords
\* in the lower-cased text, with confidence min(score / 10, 1.0).
C18_FirstMaximalByOccurrences == Classified => FirstOfMaximalScore(occurrence_score)

\* C18: the same, the score being the number of the category's keywords that
\* occur in the lower-cased text, each counted once however often it occurs.
C18_FirstMaximalByKeywordsPresent == Classified => FirstOfMaximalScore(presence_score)

\* a tie between bank_statement and a later category, with a repeated keyword
C18_Witness ==
  /\ Classified
  /\ doc_type[1] = "bank_statement"
  /\ presence_score(bank_indicators, lower(text)) = presence_score(sales_indicators, lower(text))
  /\ presence_score(bank_indicators, lower(text)) >= 2
  /\ occurrence_score(bank_indicators, lower(text)) > presence_score(bank_indicators, lower(text))

(***************************************************************************)
(* The length and the values of the list _split_line_into_columns returns  *)
(* (SpecSplit).                                                            *)
(***************************************************************************)
SplitCall == call.fn = "_split_line_into_columns"

Stripped(value) ==
  value = <<>> \/ (value[1] \notin Whitespace /\ value[Len(value)] \notin Whitespace)

\* C12: _split_line_into_columns returns exactly expected_columns values, each
\* without leading or trailing whitespace: the stripped columns of the split in
\* order, followed by empty strings when the split is shorter, and without its
\* trailing columns when it is longer.
C12_ExactlyExpectedColumns ==
  SplitCall =>
    LET columns == raw_columns(call.line)
    IN /\ Len(call.ret) = call.expected_columns
       /\ \A k \in 1..Len(call.ret) :
            /\ Stripped(call.ret[k])
            /\ k <= Len(columns) => call.ret[k] = strip(columns[k])
            /\ k > Len(columns) => call.ret[k] = <<>>

\* a split cut short whose kept columns had whitespace to strip
C12_Witness ==
  /\ SplitCall
  /\ Len(raw_columns(call.line)) > call.expected_columns
  /\ call.expected_columns = 2
  /\ \A k \in 1..2 : ~Stripped(raw_columns(call.line)[k])
  /\ \A k \in 1..2 : Stripped(call.ret[k]) /\ call.ret[k] # <<>>

\* a split padded at the end
C12_WitnessPadded ==
  /\ SplitCall
  /\ Len(raw_columns(call.line)) = 3
  /\ call.expected_columns = 5
  /\ call.ret[3] # <<>> /\ call.ret[4] = <<>> /\ call.ret[5] = <<>>

(***************************************************************************)
(* Two calls of the pipeline (SpecTwoCalls).                               *)
(***************************************************************************)
BothReturned == pc = "done" /\ call.locals.pc = "done"

C14_InterleavedAsAlone ==
  BothReturned =>
    /\ result = <<process_pdf_document(text)>>
    /\ call.locals.result = <<process_pdf_document(call.locals.text)>>

\* two different documents, one on the table path and one on the fallback path,
\* both with records, switched inside the pipeline
C14_Witness ==
  /\ BothReturned
  /\ text # call.locals.text
  /\ {"discover", "extract", "fallback"} \subseteq call.switched_at
  /\ result[1].records # <<>>
  /\ call.locals.result[1].records # <<>>
  /\ result = <<process_pdf_document(text)>>

(***************************************************************************)
(* Steps of the loop of detect_table_boundaries inside the pipeline (Spec).*)
(***************************************************************************)
\* the loop of detect_table_boundaries handles lines[i]
DetectLoopStep == pc = "detect_loop" /\ pc' = "detect_loop" /\ i' = i + 1

RegionOpen == current_table_start # None

\* lines[i] stripped, the line the step handles
CurrentLine == strip(lines[i + 1])

Appended ==
  /\ current_table_lines' = Append(current_table_lines, CurrentLine)
  /\ current_table_start' = current_table_start
  /\ table_regions' = table_regions

\* the open run is emitted as a region ending on the previous line when it holds
\* at least 3 lines, and dropped otherwise; no region is open afterwards
Closed ==
  /\ current_table_start' = None
  /\ current_table_lines' = <<>>
  /\ table_regions' =
       IF RegionOpen /\ Len(current_table_lines) >= 3
         THEN Append(table_regions,
                     TableRegion(current_table_start, i - 1, current_table_lines))
       ELSE table_regions

\* C15, as stated: once a region is open, every following non-blank line is
\* appended to it, whether or not it looks like table data.
C15_OpenRegionTakesEveryLine ==
  [][(DetectLoopStep /\ RegionOpen /\ CurrentLine # <<>>) => Appended]_vars

\* C15: once a region is open, a following non-blank line is appended to it when
\* it looks like table data; a non-blank line that does not look like table data
\* closes the region, as a blank line does, and is not appended.
C15_OpenRegionTakesTableLines ==
  [][(DetectLoopStep /\ RegionOpen /\ CurrentLine # <<>>)
       => IF _is_table_line(CurrentLine) THEN Appended ELSE Closed]_vars

\* a region of three lines has been closed by a line that is not blank
C15_Witness ==
  /\ pc = "detect_loop"
  /\ i >= 4
  /\ strip(lines[i]) # <<>>
  /\ ~_is_table_line(strip(lines[i]))
  /\ current_table_start = None
  /\ Len(table_regions) = 1
  /\ table_regions[1].end_line = i - 2

\* C16: a blank line always leaves the detector with no open region: an open run
\* of at least 3 lines is emitted as a region that ends on the previous line, a
\* shorter run is discarded, and no region holds the blank line.
C16_BlankLineClosesRegion ==
  [][(DetectLoopStep /\ CurrentLine = <<>>)
       => /\ Closed
          /\ \A k \in 1..Len(table_regions') : table_regions'[k].end_line < i]_vars

\* a line of one space has just ended a run of three lines, emitted as lines 0..2
C16_Witness ==
  /\ pc = "detect_loop"
  /\ i = 4
  /\ lines[4] = <<SPACE>>
  /\ current_table_start = None
  /\ current_table_lines = <<>>
  /\ Len(table_regions) = 1
  /\ table_regions[1].start_line = 0
  /\ table_regions[1].end_line = 2

(***************************************************************************)
(* The confidence of the regions detect_table_boundaries returns (Spec).   *)
(***************************************************************************)
lines_with(ls, P(_)) == Cardinality({k \in 1..Len(ls) : P(ls[k])})

token_count(line) == Len(split(line))

\* how many lines have the most common whitespace-token count
most_common_token_count_lines(ls) ==
  LET having(c) == Cardinality({k \in 1..Len(ls) : token_count(ls[k]) = c})
      counts == {having(token_count(ls[k])) : k \in 1..Len(ls)}
  IN CHOOSE c \in counts : \A d \in counts : d <= c

DetectionReturned == pc \in {"detected", "discover", "extract", "fallback"}

\* C17: the confidence of every returned region is 0.4 times the fraction of its
\* lines with a date, plus 0.4 times the fraction with an amount, plus 0.2 times
\* the fraction of lines that have the most common whitespace-token count, and it
\* lies in [0, 1].
C17_RegionConfidenceFormula ==
  DetectionReturned =>
    \A k \in 1..Len(table_regions) :
      LET r == table_regions[k]
          n == Len(r.lines)
          tenths == 4 * lines_with(r.lines, has_date_pattern)
                      + 4 * lines_with(r.lines, has_amount_pattern)
                      + 2 * most_common_token_count_lines(r.lines)
      IN /\ r.confidence[2] > 0
         /\ r.confidence[1] * (10 * n) = tenths * r.confidence[2]
         /\ 0 <= r.confidence[1]
         /\ r.confidence[1] <= r.confidence[2]

\* a region with dated lines and lines without an amount, whose first line has a
\* token count of its own
C17_Witness ==
  /\ DetectionReturned
  /\ \E k \in 1..Len(table_regions) :
       LET ls == table_regions[k].lines
       IN /\ lines_with(ls, has_date_pattern) >= 1
          /\ lines_with(ls, has_amount_pattern) < Len(ls)
          /\ most_common_token_count_lines(ls) > 1
          /\ most_common_token_count_lines(ls) < Len(ls)
          /\ \A j \in 2..Len(ls) : token_count(ls[j]) # token_count(ls[1])

(***************************************************************************)
(* Properties of detect_field_type (SpecEngine).                           *)
(***************************************************************************)
FieldTypeCall == call.fn = "detect_field_type"

\* the types of the keyword lists, in the order they are tried
GroupTypes ==
  <<"date", "amount", "debit", "credit", "balance", "reference", "description",
    "customer", "vendor", "invoice_number">>

\* the keyword lists one of whose keywords is a substring of the lower-cased header
matching_groups(header) ==
  {g \in 1..Len(GroupTypes) :
     \E k \in 1..Len(field_keywords[g]) : occurrences(lower(header), field_keywords[g][k]) > 0}

\* more than 60% of the sample values satisfy P
MoreThan60Percent(values, P(_)) ==
  values # <<>> /\ 10 * lines_with(values, P) > 6 * Len(values)

\* C19: detect_field_type returns the type of the first keyword list, in the order
\* date, amount, debit, credit, balance, reference, description, customer, vendor,
\* invoice, one of whose keywords is a substring of the lower-cased header; when no
\* list matches it returns DATE if more than 60% of the sample values match the
\* date pattern, else AMOUNT if more than 60% match the amount pattern, and
\* otherwise UNKNOWN, whose standard name is the original header.
C19_FirstKeywordGroupThenSamples ==
  FieldTypeCall =>
    LET groups == matching_groups(call.header)
    IN IF groups # {}
         THEN call.ret = GroupTypes[CHOOSE g \in groups : \A h \in groups : g <= h]
       ELSE IF MoreThan60Percent(call.sample_values, has_date_pattern)
         THEN call.ret = "date"
       ELSE IF MoreThan60Percent(call.sample_values, has_amount_pattern)
         THEN call.ret = "amount"
       ELSE call.ret = "unknown" /\ call.standard_name = call.header

\* a header with keywords of a later and of an earlier list, whose samples are dates
C19_Witness ==
  /\ FieldTypeCall
  /\ matching_groups(call.header) = {2, 3}
  /\ MoreThan60Percent(call.sample_values, has_date_pattern)
  /\ call.ret = "amount"

\* a header without keywords: 3 of 5 samples are amounts, which is not more than
\* 60%, so the type is unknown
C19_WitnessSamples ==
  /\ FieldTypeCall
  /\ matching_groups(call.header) = {}
  /\ Len(call.sample_values) = 5
  /\ lines_with(call.sample_values, has_amount_pattern) = 3
  /\ call.ret = "unknown"
  /\ call.standard_name = call.header

(***************************************************************************)
(* The header line of the region extract_data works on (Spec).             *)
(***************************************************************************)
\* the 1-based position, among the lines of the region, of the line
\* _find_header_line chooses
chosen_header_index(ls) == CHOOSE k \in 1..Len(ls) : ls[k] = _find_header_line(ls)

\* C20, as stated: the line extract_data skips as header is the line
\* _find_header_line chooses; the chosen line yields no record, and every other
\* data-looking line of the region yields one.
C20_SkippedLineIsChosenHeader ==
  ExtractDataReturned =>
    LET ls == best_table[1].lines
        h == chosen_header_index(ls)
    IN /\ h = 1
       /\ Len(result[1].records)
            = Cardinality({k \in 1..Len(ls) : k # h /\ _is_data_line(ls[k])})

(***************************************************************************)
(* The records of extract_data and the lines they come from (Spec).        *)
(***************************************************************************)
\* the 0-based positions, header excluded, of the lines of the region after the
\* first that look like data, in order
data_line_positions(ls) ==
  SelectSeq([p \in 1..(Len(ls) - 1) |-> p - 1], LAMBDA p : _is_data_line(ls[p + 2]))

\* C21, as stated: the row_index of every record of extract_data is the 0-based
\* position, header excluded, of its source line within the region, also when
\* lines that do not look like data come before it.
C21_RowIndexIsRegionPosition ==
  ExtractDataReturned =>
    LET positions == data_line_positions(best_table[1].lines)
    IN /\ Len(result[1].records) = Len(positions)
       /\ \A k \in 1..Len(positions) : result[1].records[k].row_index = positions[k]

\* C22: extract_data returns exactly one record, in source order, for every line
\* after the first line of the region that looks like a data line, and none for
\* the other lines; a line that splits into fewer values than there are field
\* mappings yields a record with every mapped field, and the lines after it are
\* processed.
C22_OneRecordPerDataLine ==
  ExtractDataReturned =>
    LET ls == best_table[1].lines
        positions == data_line_positions(ls)
    IN /\ Len(result[1].records) = Len(positions)
       /\ \A k \in 1..Len(positions) :
            LET line == ls[positions[k] + 2]
                record == result[1].records[k]
            IN /\ record.data
                    = extract_record(line, field_mappings, k - 1).data
               /\ StandardNames \subseteq DOMAIN record.data

\* a statement whose first row splits into three values under six field mappings
\* and whose second row yields the second record
C22_Witness ==
  /\ ExtractDataReturned
  /\ Len(field_mappings) = 6
  /\ Len(best_table[1].lines) = 3
  /\ Len(raw_columns(best_table[1].lines[2])) = 3
  /\ Len(result[1].records) = 2
  /\ result[1].records[1].data[NAME_Balance] = PyNone
  /\ result[1].records[2].data[NAME_Balance] # PyNone

(***************************************************************************)
(* Properties of the one-amount reconstruction of _split_line_into_columns *)
(* (SpecSplit).                                                            *)
(***************************************************************************)

\* a call of _split_line_into_columns on a line that starts with a date and has
\* at least 5 natural tokens, exactly one of them an amount candidate
OneAmountCall ==
  /\ call.fn = "_split_line_into_columns"
  /\ NaturalSplitApplies(call.line)
  /\ StartsWithDate(call.line)
  /\ Len(natural_split(call.line)) >= 5
  /\ Len(amount_candidates(natural_split(call.line))) = 1

sole_amount(line) == amount_candidates(natural_split(line))[1]

AmountIsLast(line) ==
  LET natural_columns == natural_split(line)
  IN natural_columns[Len(natural_columns)] = sole_amount(line)

\* the tokens between the date and the last token, without the token before the
\* last one when the last token is a balance (not empty and not the amount)
one_amount_parts(line) ==
  LET natural_columns == natural_split(line)
      n == Len(natural_columns)
  IN IF natural_columns[n] # sole_amount(line) /\ natural_columns[n] # <<>>
       THEN Slice(natural_columns, 2, n - 2)
     ELSE Slice(natural_columns, 2, n - 1)

\* the last of those tokens when there are two at least, and the others joined
one_amount_reference(line) ==
  LET parts == one_amount_parts(line)
  IN IF Len(parts) > 1 THEN parts[Len(parts)] ELSE <<>>

one_amount_description(line) ==
  LET parts == one_amount_parts(line)
  IN IF Len(parts) > 1 THEN join(<<SPACE>>, Slice(parts, 1, Len(parts) - 1))
     ELSE join(<<SPACE>>, parts)

\* the value of a position of the returned columns, for the positions the
\* expected count has kept
At(columns, position, value) ==
  position <= Len(columns) => columns[position] = strip(value)

InDebit(columns, amount) == At(columns, 4, amount) /\ At(columns, 5, <<>>)
InCredit(columns, amount) == At(columns, 4, <<>>) /\ At(columns, 5, amount)
InNeither(columns) == At(columns, 4, <<>>) /\ At(columns, 5, <<>>)

PrefixRecognised(reference) ==
  \/ startswith(reference, PREFIX_DEP)
  \/ startswith(reference, PREFIX_CHQ)
  \/ startswith(reference, PREFIX_AUTO)
  \/ startswith(reference, PREFIX_OB)

\* the placement of the amount by reference prefix, then by the keywords of the
\* description one list at a time, then debit
PlacedByPriority(columns, reference, description, amount) ==
  LET desc_lower == lower(description)
      debit_word == any_keyword(debit_keywords, desc_lower)
      credit_word == any_keyword(credit_keywords, desc_lower)
  IN /\ startswith(reference, PREFIX_DEP) => InCredit(columns, amount)
     /\ (startswith(reference, PREFIX_CHQ) \/ startswith(reference, PREFIX_AUTO))
          => InDebit(columns, amount)
     /\ startswith(reference, PREFIX_OB) => InNeither(columns)
     /\ (~PrefixRecognised(reference) /\ debit_word /\ ~credit_word)
          => InDebit(columns, amount)
     /\ (~PrefixRecognised(reference) /\ credit_word /\ ~debit_word)
          => InCredit(columns, amount)
     /\ (~PrefixRecognised(reference) /\ ~debit_word /\ ~credit_word)
          => InDebit(columns, amount)

\* C23: for a line that starts with a date and has 5 or more natural tokens, one
\* of them an amount candidate that is not the last token, the debit and credit
\* positions _split_line_into_columns returns follow the reference prefix first
\* (DEP credit, CHQ or AUTO debit, OB neither, whatever the description holds),
\* the description keywords only when no prefix is recognised, and debit when
\* neither a prefix nor a keyword matches.
C23_PrefixThenKeywordsThenDebit ==
  (OneAmountCall /\ ~AmountIsLast(call.line)) =>
    PlacedByPriority(call.ret, one_amount_reference(call.line),
                     one_amount_description(call.line), sole_amount(call.line))

\* '1/2/25  Income  CHQ1  5  Gift' was split into 6 columns: the CHQ prefix put
\* the amount in the debit position though the description holds a credit keyword
C23_Witness ==
  /\ OneAmountCall
  /\ ~AmountIsLast(call.line)
  /\ call.expected_columns = 6
  /\ startswith(one_amount_reference(call.line), PREFIX_CHQ)
  /\ any_keyword(credit_keywords, lower(one_amount_description(call.line)))
  /\ call.ret[4] = <<"5">>
  /\ call.ret[5] = <<>>

\* C24, as stated: for a line that starts with a date and has 5 natural tokens
\* whose one amount candidate is the last token, _split_line_into_columns places
\* the amount in neither the debit nor the credit position.
C24_NoClassificationWhenAmountLast ==
  (OneAmountCall /\ Len(natural_split(call.line)) = 5 /\ AmountIsLast(call.line)) =>
    InNeither(call.ret)

\* C24: for such a line the amount is placed by the same priority as an amount
\* that is not the last token, with the token before the amount as reference and
\* the tokens between the date and it as description; the balance position is
\* empty, but under an OB prefix, where the amount takes it.
C24_AmountLastIsClassified ==
  (OneAmountCall /\ Len(natural_split(call.line)) = 5 /\ AmountIsLast(call.line)) =>
    LET natural_columns == natural_split(call.line)
        reference == natural_columns[4]
        description == join(<<SPACE>>, <<natural_columns[2], natural_columns[3]>>)
        amount == sole_amount(call.line)
    IN /\ PlacedByPriority(call.ret, reference, description, amount)
       /\ At(call.ret, 2, description)
       /\ At(call.ret, 3, reference)
       /\ IF startswith(reference, PREFIX_OB) THEN At(call.ret, 6, amount)
          ELSE At(call.ret, 6, <<>>)

\* '1/2/25  Rent  Gift  DEP1  5' was split into 6 columns: the amount, the last
\* token, is in the credit position and the balance position is empty
C24_Witness ==
  /\ OneAmountCall
  /\ Len(natural_split(call.line)) = 5
  /\ AmountIsLast(call.line)
  /\ call.expected_columns = 6
  /\ startswith(natural_split(call.line)[4], PREFIX_DEP)
  /\ call.ret[4] = <<>>
  /\ call.ret[5] = sole_amount(call.line)
  /\ call.ret[6] = <<>>

\* the description of a two-amount line: the columns after the date that are not
\* amount candidates, without the last of them when there are two at least
two_amount_description(line) ==
  LET natural_columns == natural_split(line)
      amounts == amount_candidates(natural_columns)
      others == SelectSeq(Tail(natural_columns),
                          LAMBDA col : \A k \in 1..Len(amounts) : col # amounts[k])
  IN IF Len(others) > 1 THEN join(<<SPACE>>, Slice(others, 1, Len(others) - 1))
     ELSE join(<<SPACE>>, others)

BothKeywordLists(description) ==
  /\ any_keyword(debit_keywords, lower(description))
  /\ any_keyword(credit_keywords, lower(description))

\* C29: when no reference prefix is recognised and the description holds a debit
\* keyword and a credit keyword (as 'Payment received' does), the debit list
\* wins: _split_line_into_columns returns the transaction amount in the debit
\* position and an empty credit position, on a one-amount line of 5 or more
\* tokens and on a two-amount line.
C29_DebitKeywordsBeforeCreditKeywords ==
  /\ (/\ OneAmountCall
      /\ ~PrefixRecognised(one_amount_reference(call.line))
      /\ BothKeywordLists(one_amount_description(call.line)))
       => InDebit(call.ret, sole_amount(call.line))
  /\ (/\ TwoAmountCall
      /\ ~PrefixRecognised(two_amount_reference(call.line))
      /\ BothKeywordLists(two_amount_description(call.line)))
       => InDebit(call.ret, amount_candidates(natural_split(call.line))[1])

\* '1/2/25  Payment received  Gift  5  Gift' was split into 6 columns, with the
\* amount in the debit position
C29_Witness ==
  /\ OneAmountCall
  /\ call.expected_columns = 6
  /\ ~PrefixRecognised(call.ret[3])
  /\ Contains(lower(call.ret[2]), <<"p", "a", "y", "m", "e", "n", "t">>)
  /\ Contains(lower(call.ret[2]), <<"r", "e", "c", "e", "i", "v", "e", "d">>)
  /\ call.ret[4] = <<"5">>
  /\ call.ret[5] = <<>>

\* the same on a two-amount line, '1/2/25  Payment received  Gift  5  1,0.5'
C29_WitnessTwoAmounts ==
  /\ TwoAmountCall
  /\ call.expected_columns = 6
  /\ ~PrefixRecognised(call.ret[3])
  /\ BothKeywordLists(call.ret[2])
  /\ call.ret[4] = <<"5">>
  /\ call.ret[5] = <<>>
  /\ call.ret[6] = <<"1", ",", "0", ".", "5">>

\* a call of _split_line_into_columns that reconstructs the line: it starts with
\* a date and has at least 4 natural tokens, one or two of them amount candidates
ReconstructedCall ==
  /\ call.fn = "_split_line_into_columns"
  /\ NaturalSplitApplies(call.line)
  /\ StartsWithDate(call.line)
  /\ Len(natural_split(call.line)) >= 4
  /\ Len(amount_candidates(natural_split(call.line))) \in {1, 2}

\* the description, the reference and the balance of a reconstructed line
reconstructed_description(line) ==
  LET natural_columns == natural_split(line)
  IN IF Len(amount_candidates(natural_columns)) = 2 THEN two_amount_description(line)
     ELSE IF Len(natural_columns) = 4 THEN natural_columns[2]
     ELSE one_amount_description(line)

reconstructed_reference(line) ==
  LET natural_columns == natural_split(line)
  IN IF Len(amount_candidates(natural_columns)) = 2 THEN two_amount_reference(line)
     ELSE IF Len(natural_columns) = 4 THEN natural_columns[3]
     ELSE one_amount_reference(line)

reconstructed_balance(line) ==
  LET natural_columns == natural_split(line)
      n == Len(natural_columns)
      amounts == amount_candidates(natural_columns)
  IN IF Len(amounts) = 2 THEN amounts[2]
     ELSE IF n = 4 THEN natural_columns[4]
     ELSE IF startswith(one_amount_reference(line), PREFIX_OB) THEN amounts[1]
     ELSE IF AmountIsLast(line) THEN <<>>
     ELSE natural_columns[n]

\* C30: a reconstructed line is returned in the positions date, description,
\* reference, debit, credit, balance, the same for every expected count: the
\* count only cuts the positions after it or pads after the sixth, so that under
\* an expected count below 6 the result has no balance position, and the balance
\* of a two-amount line is returned only under a count of 6 or more.
C30_FixedSixPositions ==
  ReconstructedCall =>
    LET natural_columns == natural_split(call.line)
        amounts == amount_candidates(natural_columns)
        columns == call.ret
    IN /\ Len(columns) = call.expected_columns
       /\ At(columns, 1, natural_columns[1])
       /\ At(columns, 2, reconstructed_description(call.line))
       /\ At(columns, 3, reconstructed_reference(call.line))
       /\ \/ InDebit(columns, amounts[1])
          \/ InCredit(columns, amounts[1])
          \/ InNeither(columns)
       /\ At(columns, 6, reconstructed_balance(call.line))
       /\ \A k \in 7..Len(columns) : columns[k] = <<>>
       /\ (Len(amounts) = 2 /\ call.expected_columns >= 6) => columns[6] = amounts[2]
       /\ (Len(amounts) = 2 /\ call.expected_columns < 6) => Len(columns) < 6

\* the two-amount line '1/2/25  Rent  CHQ1  5  1,0.5' was split into 5 columns,
\* date, description, reference, debit and an empty credit: its balance is cut
C30_Witness ==
  /\ ReconstructedCall
  /\ call.expected_columns = 5
  /\ Len(amount_candidates(natural_split(call.line))) = 2
  /\ call.ret = <<<<"1", "/", "2", "/", "2", "5">>, <<"R", "e", "n", "t">>,
                  <<"C", "H", "Q", "1">>, <<"5">>, <<>>>>

(***************************************************************************)
(* Properties of the records of _fallback_line_processing (Spec).          *)
(***************************************************************************)

\* the stripped lines of the text that _fallback_line_processing makes a record
\* of, in order
fallback_lines ==
  LET raw == SelectSeq(split_on(text, NL), fallback_matches)
  IN [k \in 1..Len(raw) |-> strip(raw[k])]

\* the position of the first match of the amount pattern in the line
first_amount_position(line) ==
  CHOOSE p \in 1..Len(line) :
    line[p] \in AmountChars /\ \A q \in 1..(p - 1) : line[q] \notin AmountChars

\* C25, as stated: every record of the fallback has as Date the first date of
\* its line, as Amount the first amount found in the line, which is no part of
\* that date, and as Description the stripped text between the end of the date
\* and the start of that amount.
C25_FallbackAmountOutsideDate ==
  FallbackReturned =>
    /\ Len(result[1].records) = Len(fallback_lines)
    /\ \A k \in 1..Len(fallback_lines) :
         LET line == fallback_lines[k]
             data == result[1].records[k].data
             date_match == DateSearch(line)
             amount_start == first_amount_position(line)
         IN /\ data[NAME_Date] = PyStr(SubSeq(line, date_match[1], date_match[2] - 1))
            /\ data[NAME_Amount] = PyStr(amount_findall(line)[1])
            /\ ~(date_match[1] <= amount_start /\ amount_start < date_match[2])
            /\ data[NAME_Description]
                 = PyStr(strip(Slice(line, date_match[2], amount_start - 1)))

(***************************************************************************)
(* The null values of _process_field_value (SpecValue).                    *)
(***************************************************************************)

\* the value is empty or is '-', 'nil' or 'null' in any mix of cases
NullValue(value) ==
  \/ value = <<>>
  \/ value = <<"-">>
  \/ /\ Len(value) = 3
     /\ value[1] \in {"n", "N"} /\ value[2] \in {"i", "I"} /\ value[3] \in {"l", "L"}
  \/ /\ Len(value) = 4
     /\ value[1] \in {"n", "N"} /\ value[2] \in {"u", "U"}
     /\ value[3] \in {"l", "L"} /\ value[4] \in {"l", "L"}

\* C26: for every field type _process_field_value returns null exactly for the
\* values that are empty or equal to '-', 'nil' or 'null' whatever their case;
\* every other value yields a string, and for a type that is not an amount type
\* the value itself.
C26_NullExactlyForNullWords ==
  call.fn = "_process_field_value" =>
    /\ (call.ret = PyNone) <=> NullValue(call.value)
    /\ ~NullValue(call.value) =>
         /\ call.ret[1] = "str"
         /\ call.field_type \notin AmountTypes => call.ret = PyStr(call.value)

\* 'Nil' of a type that is not an amount type came back null
C26_Witness ==
  /\ call.fn = "_process_field_value"
  /\ call.value = <<"N", "i", "l">>
  /\ call.field_type \notin AmountTypes
  /\ call.ret = PyNone

\* '1-' and '-,' of such a type came back unchanged
C26_WitnessUnchanged ==
  /\ call.fn = "_process_field_value"
  /\ call.value \in {<<"1", "-">>, <<"-", ",">>}
  /\ call.field_type \notin AmountTypes
  /\ call.ret = PyStr(call.value)

(***************************************************************************)
(* The lines of the regions detect_table_boundaries returns (Spec).        *)
(***************************************************************************)

\* C27: every region detect_table_boundaries returns stores end_line -
\* start_line + 1 lines, which are the lines start_line..end_line of the text,
\* stripped, in order and none of them blank; the regions are returned by
\* increasing start_line.
C27_RegionLinesAreSourceLines ==
  pc = "detected" =>
    /\ \A r \in Regions :
         /\ 0 <= r.start_line
         /\ r.end_line < Len(lines)
         /\ Len(r.lines) = r.end_line - r.start_line + 1
         /\ \A k \in 1..Len(r.lines) :
              /\ r.lines[k] = strip(lines[r.start_line + k])
              /\ r.lines[k] # <<>>
    /\ \A j, k \in 1..Len(table_regions) :
         j < k => table_regions[j].start_line < table_regions[k].start_line

\* detection returned two regions, the second of which starts after the first
\* line of the text; a stored line of the first differs from its source line by
\* the whitespace stripped
C27_Witness ==
  /\ pc = "detected"
  /\ Len(table_regions) = 2
  /\ table_regions[2].start_line > table_regions[1].end_line + 1
  /\ table_regions[1].end_line < Len(lines) - 1
  /\ \E k \in 1..Len(table_regions[1].lines) :
       /\ table_regions[1].lines[k] # lines[table_regions[1].start_line + k]
       /\ table_regions[1].lines[k] = strip(lines[table_regions[1].start_line + k])

(***************************************************************************)
(* A line that is not table data met while a run is open (Spec).           *)
(***************************************************************************)

\* C28: a line that is not blank and does not look like table data, met while a
\* run is open, ends the run (emitted or discarded) and joins no region, also
\* when it is a header line: no run is open after it, and the table line that
\* follows it starts a new run that holds that table line alone.
C28_HeaderEndsOpenRunAndOpensNone ==
  [][DetectLoopStep =>
       LET line == CurrentLine
           table_line == _is_table_line(line)
       IN /\ (RegionOpen /\ line # <<>> /\ ~table_line)
               => /\ current_table_start' = None
                  /\ current_table_lines' = <<>>
                  /\ \A k \in 1..Len(table_regions') : table_regions'[k].end_line < i
                  /\ Len(table_regions') =
                       Len(table_regions) + (IF Len(current_table_lines) >= 3 THEN 1 ELSE 0)
          /\ (~RegionOpen /\ table_line)
               => /\ current_table_start' = i
                  /\ current_table_lines' = <<line>>]_vars

\* three tabbed lines, the header line and three dated lines: detection returned
\* the regions of lines 0..2 and 4..6, neither of which holds the header line
C28_Witness ==
  /\ pc = "detected"
  /\ Len(lines) = 7
  /\ lines[4] = LINE_header
  /\ _is_header_line(strip(lines[4]))
  /\ ~_is_table_line(strip(lines[4]))
  /\ Len(table_regions) = 2
  /\ table_regions[1].start_line = 0
  /\ table_regions[1].end_line = 2
  /\ table_regions[2].start_line = 4
  /\ table_regions[2].lines = <<strip(lines[5]), strip(lines[6]), strip(lines[7])>>

=============================================================================
